---- MODULE Spec2Model ----
(***************************************************************************)
(* Synthetic shadow DOM (lwc, packages/@lwc/synthetic-shadow): the         *)
(* rendered-text engine (innerText), its save/neutralise/restore protocol   *)
(* on the window's Selection, and the ownership filter behind the patched   *)
(* traversal APIs (querySelector, querySelectorAll, children, ...).         *)
(*                                                                          *)
(* Strings are sequences of tokens: a text node's content is one token,     *)
(* a line feed is the token "\n", string concatenation is \o and the        *)
(* empty string is << >>.  Array indices are the code's (0-based).          *)
(***************************************************************************)
EXTENDS Integers, Sequences, FiniteSets, TLC

VARIABLES
    dom,            \* the document: node -> its record
    pc,             \* position of the getInnerText call
    results,        \* getInnerText: the collected item list
    ret,            \* the value the call returned (NoValue before it returns)
    element,        \* getInnerText: the element whose innerText is read
    win,            \* the window: its onselect* handlers and its Selection
    ranges,         \* the ranges of the window's Selection, in order
    selectionState, \* getInnerText: the SelectionState it captured
    idx,            \* getInnerText: the index i of its loop over childNodes
    before,         \* the handlers and ranges as the call found them
    context,        \* traversal: the element the patched API is called on
    selector,       \* traversal: the tag names the selector matches
    ENABLE_NODE_LIST_PATCH,     \* featureFlags.ENABLE_NODE_LIST_PATCH
    skipGlobalPatching,         \* the global patching skip marker
    call,           \* traversal: the last call made and what it returned
    syntheticMode,  \* the mode of the context's synthetic shadow root, "none" without one
    nativeMode,     \* the mode of the context's native shadow root, "none" without one
    delegatesFocus, \* focus: the delegatesFocus option of the context's shadow root
    tabindex,       \* focus: the tabindex attribute of the context
    listeners,      \* focus: which of the two listeners are registered on the context
    routinesEnabled, \* focus: the keyboard focus navigation routines are enabled
    activeElement,  \* focus: the element that holds focus, Null when none does
    focusable,      \* focus: the elements other than the context that take focus
    prior,          \* focus: the call before the last and the state it left
    loop            \* post-processing, loop by loop: start, end, maxInSequence

selectionVars == <<element, win, ranges, selectionState, idx, before>>
textVars == <<dom, pc, results, ret, element, win, ranges, selectionState, idx, before>>
queryVars == <<context, selector, ENABLE_NODE_LIST_PATCH, skipGlobalPatching, call>>
shadowVars == <<syntheticMode, nativeMode>>
focusVars == <<delegatesFocus, tabindex, listeners, routinesEnabled, activeElement,
               focusable, prior>>
hostVars == <<syntheticMode, nativeMode, delegatesFocus, tabindex, listeners,
              routinesEnabled, activeElement, focusable, prior, loop>>
vars == <<dom, pc, results, ret, element, win, ranges, selectionState, idx, before,
          context, selector, ENABLE_NODE_LIST_PATCH, skipGlobalPatching, call,
          syntheticMode, nativeMode, delegatesFocus, tabindex, listeners,
          routinesEnabled, activeElement, focusable, prior, loop>>

NoValue == "no value"
NoNode == "no node"
NoKey == "undefined"
Null == "null"

\* the shadow roots and the focus machinery are not looked at
NoTabindex == [has |-> FALSE, value |-> -1]
NoListeners == [focusin |-> FALSE, focus |-> FALSE]
NoPrior ==
    [op |-> "none", count |-> 0, tabindex |-> NoTabindex, listeners |-> NoListeners,
     activeElement |-> Null]

ShadowIdle ==
    /\ syntheticMode = "none"
    /\ nativeMode = "none"

FocusIdle ==
    /\ delegatesFocus = FALSE
    /\ tabindex = NoTabindex
    /\ listeners = NoListeners
    /\ routinesEnabled = TRUE
    /\ activeElement = Null
    /\ focusable = {}
    /\ prior = NoPrior

NoLoop == [start |-> 0, end |-> -1, maxInSequence |-> 0, collected |-> <<>>]

LoopIdle == loop = NoLoop

HostIdle ==
    /\ LoopIdle
    /\ ShadowIdle
    /\ FocusIdle

(***************************************************************************)
(* The document.  A synthetic shadow tree lives in the native tree: the    *)
(* native children of a host are the nodes of its shadow tree, and the     *)
(* nodes slotted into it are native children of its slot elements.  The    *)
(* document holds the fixture of the innerText test                         *)
(* (.without-slotted-content, .with-slotted-content,                        *)
(* .with-slotted-content-2-levels), the same with a slotted DIV, a          *)
(* manually inserted element, a host with no key of its own and            *)
(* document-level content.                                                  *)
(***************************************************************************)
El(tag, kids, ownerKey, key, host) ==
    [nodeType |-> "element", tagName |-> tag, childNodes |-> kids,
     ownerKey |-> ownerKey, key |-> key, host |-> host, data |-> <<>>,
     style |-> [display |-> "", visibility |-> ""],
     parentNode |-> NoNode, index |-> 0]

Tx(data, ownerKey) ==
    [nodeType |-> "text", tagName |-> "#text", childNodes |-> <<>>,
     ownerKey |-> ownerKey, key |-> NoKey, host |-> FALSE, data |-> data,
     style |-> [display |-> "", visibility |-> ""],
     parentNode |-> NoNode, index |-> 0]

WhiteSpace == <<" ">>

Markup ==
    \* document-level content
       ("body" :> El("BODY", <<"doc_div">>, NoKey, NoKey, FALSE))
    @@ ("doc_div" :> El("DIV", <<"doc_text", "doc_span", "x_container">>,
            NoKey, NoKey, FALSE))
    @@ ("doc_text" :> Tx(<<"document text">>, NoKey))
    @@ ("doc_span" :> El("SPAN", <<>>, NoKey, NoKey, FALSE))
    \* the root component: its shadow tree is owned by "container"
    @@ ("x_container" :> El("X-CONTAINER",
            <<"w0", "w1", "w2", "w3", "n_host">>, NoKey, "container", TRUE))
    \* .without-slotted-content
    @@ ("w0" :> El("DIV", <<"a0", "ws0", "h0", "b0", "manual">>, "container", NoKey, FALSE))
    @@ ("a0" :> El("DIV", <<"t_a0">>, "container", NoKey, FALSE))
    @@ ("t_a0" :> Tx(<<"first text">>, "container"))
    @@ ("ws0" :> Tx(WhiteSpace, "container"))
    @@ ("h0" :> El("X-PLAIN", <<"s0">>, "container", "plain", TRUE))
    @@ ("s0" :> El("DIV", <<"t_s0">>, "plain", NoKey, FALSE))
    @@ ("t_s0" :> Tx(<<"shadow text 0">>, "plain"))
    @@ ("b0" :> El("DIV", <<"t_b0">>, "container", NoKey, FALSE))
    @@ ("t_b0" :> Tx(<<"second text">>, "container"))
    \* an element inserted by hand under w0: it carries no key
    @@ ("manual" :> El("SPAN", <<"manual_child", "m_host">>, NoKey, NoKey, FALSE))
    @@ ("manual_child" :> El("SPAN", <<>>, NoKey, NoKey, FALSE))
    \* a component created and inserted by hand: its host carries no owner key
    @@ ("m_host" :> El("X-MANUAL", <<"m_inner">>, NoKey, "manual", TRUE))
    @@ ("m_inner" :> El("DIV", <<>>, "manual", NoKey, FALSE))
    \* .with-slotted-content
    @@ ("w1" :> El("DIV", <<"a1", "h1", "b1">>, "container", NoKey, FALSE))
    @@ ("a1" :> El("DIV", <<"t_a1">>, "container", NoKey, FALSE))
    @@ ("t_a1" :> Tx(<<"first text">>, "container"))
    @@ ("h1" :> El("X-SLOTABLE", <<"s1", "slot1">>, "container", "slotable", TRUE))
    @@ ("s1" :> El("DIV", <<"t_s1">>, "slotable", NoKey, FALSE))
    @@ ("t_s1" :> Tx(<<"shadow text 1">>, "slotable"))
    @@ ("slot1" :> El("SLOT", <<"l1">>, "slotable", NoKey, FALSE))
    @@ ("l1" :> El("P", <<"t_l1">>, "container", NoKey, FALSE))
    @@ ("t_l1" :> Tx(<<"slotted element">>, "container"))
    @@ ("b1" :> El("DIV", <<"t_b1">>, "container", NoKey, FALSE))
    @@ ("t_b1" :> Tx(<<"second text">>, "container"))
    \* .with-slotted-content-2-levels
    @@ ("w2" :> El("DIV", <<"a2", "h2", "b2">>, "container", NoKey, FALSE))
    @@ ("a2" :> El("DIV", <<"t_a2">>, "container", NoKey, FALSE))
    @@ ("t_a2" :> Tx(<<"first text">>, "container"))
    @@ ("h2" :> El("X-OUTER", <<"h3">>, "container", "outer", TRUE))
    @@ ("h3" :> El("X-INNER", <<"s3", "slot3">>, "outer", "inner", TRUE))
    @@ ("s3" :> El("DIV", <<"t_s3">>, "inner", NoKey, FALSE))
    @@ ("t_s3" :> Tx(<<"shadow text 3">>, "inner"))
    @@ ("slot3" :> El("SLOT", <<"slot2">>, "inner", NoKey, FALSE))
    @@ ("slot2" :> El("SLOT", <<"l2">>, "outer", NoKey, FALSE))
    @@ ("l2" :> El("P", <<"t_l2">>, "container", NoKey, FALSE))
    @@ ("t_l2" :> Tx(<<"slotted element">>, "container"))
    @@ ("b2" :> El("DIV", <<"t_b2">>, "container", NoKey, FALSE))
    @@ ("t_b2" :> Tx(<<"second text">>, "container"))
    \* as .with-slotted-content, the slotted element a DIV
    @@ ("w3" :> El("DIV", <<"a3", "h4", "b3">>, "container", NoKey, FALSE))
    @@ ("a3" :> El("DIV", <<"t_a3">>, "container", NoKey, FALSE))
    @@ ("t_a3" :> Tx(<<"first text">>, "container"))
    @@ ("h4" :> El("X-SLOTABLE", <<"s4", "slot4">>, "container", "slotable2", TRUE))
    @@ ("s4" :> El("DIV", <<"t_s4">>, "slotable2", NoKey, FALSE))
    @@ ("t_s4" :> Tx(<<"shadow text 4">>, "slotable2"))
    @@ ("slot4" :> El("SLOT", <<"l3">>, "slotable2", NoKey, FALSE))
    @@ ("l3" :> El("DIV", <<"t_l3">>, "container", NoKey, FALSE))
    @@ ("t_l3" :> Tx(<<"slotted element">>, "container"))
    @@ ("b3" :> El("DIV", <<"t_b3">>, "container", NoKey, FALSE))
    @@ ("t_b3" :> Tx(<<"second text">>, "container"))
    \* a regular element with a synthetic shadow attached: a host with no key
    @@ ("n_host" :> El("DIV", <<"n_c1", "n_c2">>, "container", NoKey, TRUE))
    @@ ("n_c1" :> El("SPAN", <<>>, "container", NoKey, FALSE))
    @@ ("n_c2" :> El("SPAN", <<>>, NoKey, NoKey, FALSE))

Nodes == DOMAIN Markup
Elements == {n \in Nodes : Markup[n].nodeType = "element"}

Range(f) == {f[i] : i \in DOMAIN f}

RECURSIVE Flatten(_)
Flatten(lists) == IF lists = <<>> THEN <<>> ELSE Head(lists) \o Flatten(Tail(lists))

\* the node and its descendants in the markup, in tree order
RECURSIVE TreeOrder(_)
TreeOrder(n) ==
    <<n>> \o Flatten([i \in DOMAIN Markup[n].childNodes |->
                         TreeOrder(Markup[n].childNodes[i])])

DocumentOrder == TreeOrder("body")

\* the document the markup parses to: every node with its parent and its
\* position in tree order
Document ==
    [n \in Nodes |->
        [Markup[n] EXCEPT
            !.parentNode =
                IF \E p \in Nodes : n \in Range(Markup[p].childNodes)
                THEN CHOOSE p \in Nodes : n \in Range(Markup[p].childNodes)
                ELSE NoNode,
            !.index = CHOOSE i \in DOMAIN DocumentOrder : DocumentOrder[i] = n]]

parentNodeGetter(n) == dom[n].parentNode

childNodesGetter(n) == dom[n].childNodes

RECURSIVE Contains(_, _)
Contains(ancestor, n) ==
    IF n = NoNode THEN FALSE
    ELSE IF n = ancestor THEN TRUE
    ELSE Contains(ancestor, dom[n].parentNode)

\* the node and its native descendants, in tree order
Subtree(n) ==
    [i \in 1..Cardinality({m \in DOMAIN dom : Contains(n, m)}) |->
        CHOOSE m \in DOMAIN dom : dom[m].index = dom[n].index + i - 1]

nodeIsElement(n) == dom[n].nodeType = "element"
nodeIsText(n) == dom[n].nodeType = "text"
isSlotElement(n) == dom[n].tagName = "SLOT"

(***************************************************************************)
(* Ownership registry.                                                      *)
(***************************************************************************)
getNodeOwnerKey(n) == dom[n].ownerKey

\* the key of the shadow tree attached to the node, for a custom element
getNodeKey(n) == dom[n].key

isHostElement(n) == dom[n].host

\* walks the ancestors when the node itself carries no key
RECURSIVE getNodeNearestOwnerKey(_)
getNodeNearestOwnerKey(n) ==
    IF getNodeOwnerKey(n) # NoKey THEN getNodeOwnerKey(n)
    ELSE IF parentNodeGetter(n) = NoNode THEN NoKey
    ELSE getNodeNearestOwnerKey(parentNodeGetter(n))

\* true if the node or an ancestor carries an ownership key
isNodeShadowed(n) == getNodeNearestOwnerKey(n) # NoKey

\* the nearest inclusive ancestor whose own key is the node's nearest owner key
RECURSIVE FindOwner(_, _)
FindOwner(n, ownerKey) ==
    IF n = NoNode THEN NoNode
    ELSE IF getNodeKey(n) = ownerKey THEN n
    ELSE FindOwner(parentNodeGetter(n), ownerKey)

getNodeOwner(n) ==
    IF getNodeNearestOwnerKey(n) = NoKey THEN NoNode
    ELSE FindOwner(n, getNodeNearestOwnerKey(n))

(***************************************************************************)
(* Slot resolver and the match helpers of the traversal filter.            *)
(***************************************************************************)
\* the first element of a list that passes the test, or undefined
ArrayFind(list, Test(_)) ==
    LET hits == {i \in 1..Len(list) : Test(list[i])} IN
    IF hits = {} THEN NoValue
    ELSE list[CHOOSE i \in hits : \A j \in hits : i <= j]

ArrayFilter(list, Test(_)) == SelectSeq(list, Test)

\* strict ownership-key equality with the owner
isNodeOwnedBy(owner, n) == getNodeOwnerKey(n) = getNodeKey(owner)

\* the nodes a slot exposes: its native children that come from another tree
getFilteredSlotAssignedNodes(slot) ==
    ArrayFilter(childNodesGetter(slot),
                LAMBDA c : getNodeNearestOwnerKey(c) # getNodeNearestOwnerKey(slot))

\* the slot elements of the host's own shadow tree, in tree order
SlotsOf(host) ==
    ArrayFilter(Tail(Subtree(host)),
                LAMBDA s : /\ isSlotElement(s)
                           /\ getNodeKey(host) # NoKey
                           /\ getNodeOwnerKey(s) = getNodeKey(host))

getFilteredChildNodes(n) ==
    IF isHostElement(n)
    THEN Flatten([i \in DOMAIN SlotsOf(n) |-> getFilteredSlotAssignedNodes(SlotsOf(n)[i])])
    ELSE IF isSlotElement(n)
    THEN ArrayFilter(childNodesGetter(n),
                     LAMBDA c : getNodeNearestOwnerKey(c) = getNodeNearestOwnerKey(n))
    ELSE childNodesGetter(n)

\* the parent of a node in the light tree: a slotted node belongs to the host
\* of the slot, the top nodes of a shadow tree have none
LightParent(n) ==
    LET p == parentNodeGetter(n) IN
    IF p = NoNode THEN NoNode
    ELSE IF isSlotElement(p) /\ getNodeNearestOwnerKey(n) # getNodeNearestOwnerKey(p)
    THEN getNodeOwner(p)
    ELSE IF isHostElement(p) /\ getNodeKey(p) # NoKey
            /\ getNodeNearestOwnerKey(n) = getNodeKey(p)
    THEN NoNode
    ELSE p

RECURSIVE isNodeSlotted(_, _)
isNodeSlotted(host, n) ==
    LET p == LightParent(n) IN
    IF p = NoNode THEN FALSE
    ELSE IF p = host THEN TRUE
    ELSE isNodeSlotted(host, p)

getAllMatches(owner, nodeList) ==
    ArrayFilter(nodeList, LAMBDA n : isNodeOwnedBy(owner, n))

getFirstMatch(owner, nodeList) ==
    LET elm == ArrayFind(nodeList, LAMBDA n : isNodeOwnedBy(owner, n)) IN
    IF elm = NoValue THEN Null ELSE elm

getAllSlottedMatches(host, nodeList) ==
    ArrayFilter(nodeList, LAMBDA n : ~isNodeOwnedBy(host, n) /\ isNodeSlotted(host, n))

getFirstSlottedMatch(host, nodeList) ==
    LET elm == ArrayFind(nodeList,
                         LAMBDA n : ~isNodeOwnedBy(host, n) /\ isNodeSlotted(host, n)) IN
    IF elm = NoValue THEN Null ELSE elm

\* a host, and a slot element of a synthetic shadow tree, have mounted children
hasMountedChildren(n) ==
    isHostElement(n) \/ (isSlotElement(n) /\ isNodeShadowed(n))

isGlobalPatchingSkipped(n) == skipGlobalPatching

\* the child nodes of the filtered tree: of a host, its slotted light DOM
childNodesGetterPatched(n) ==
    IF isHostElement(n)
    THEN IF getNodeOwner(n) = NoNode THEN <<>>
         ELSE getAllMatches(getNodeOwner(n), getFilteredChildNodes(n))
    ELSE childNodesGetter(n)

(***************************************************************************)
(* The native traversal the patches start from.                            *)
(***************************************************************************)
\* a selector is the set of tag names it matches ('div, p, slot')
Selectors == SUBSET {"DIV", "SPAN", "P", "SLOT", "X-SLOTABLE", "X-INNER"}

\* the descendant elements that match, in tree order
elementQuerySelectorAll(this, sel) ==
    ArrayFilter(Tail(Subtree(this)),
                LAMBDA n : nodeIsElement(n) /\ dom[n].tagName \in sel)

childrenGetter(this) == ArrayFilter(childNodesGetter(this), nodeIsElement)

childElementCountGetter(this) ==
    Cardinality({i \in DOMAIN childNodesGetter(this) : nodeIsElement(childNodesGetter(this)[i])})

RECURSIVE FirstElementOf(_)
FirstElementOf(nodeList) ==
    IF nodeList = <<>> THEN Null
    ELSE IF nodeIsElement(Head(nodeList)) THEN Head(nodeList)
    ELSE FirstElementOf(Tail(nodeList))

RECURSIVE Reverse(_)
Reverse(list) == IF list = <<>> THEN <<>> ELSE Reverse(Tail(list)) \o <<Head(list)>>

firstElementChildGetter(this) == FirstElementOf(childNodesGetter(this))

lastElementChildGetter(this) == FirstElementOf(Reverse(childNodesGetter(this)))

(***************************************************************************)
(* faux-shadow/element.ts: the patched traversal.                          *)
(***************************************************************************)
Disabled == "ShadowDomSemantic.Disabled"
Enabled == "ShadowDomSemantic.Enabled"

isHTMLBodyElement(n) == dom[n].tagName = "BODY"

childrenGetterPatched(this) ==
    LET owner == getNodeOwner(this)
        childNodes == IF owner = NoNode THEN <<>>
                      ELSE getAllMatches(owner, getFilteredChildNodes(this))
    IN ArrayFilter(childNodes, nodeIsElement)

\* Element.prototype.children
children(this) ==
    IF hasMountedChildren(this) THEN childrenGetterPatched(this) ELSE childrenGetter(this)

\* children[i] and children.item(i) of a static collection
Item(collection, i) == IF i >= 0 /\ i < Len(collection) THEN collection[i + 1] ELSE NoValue

OrNull(v) == IF v = NoValue THEN Null ELSE v

\* the mutant of childElementCountGetterPatched: the native count
childElementCountGetterPatched_native(this) == childElementCountGetter(this)

childElementCountGetterPatched(this) == Len(children(this))

firstElementChildGetterPatched(this) == OrNull(Item(children(this), 0))

lastElementChildGetterPatched(this) ==
    OrNull(Item(children(this), Len(children(this)) - 1))

\* Element.prototype.childElementCount
childElementCount(this) ==
    IF hasMountedChildren(this) THEN childElementCountGetterPatched(this)
    ELSE childElementCountGetter(this)

\* Element.prototype.firstElementChild
firstElementChild(this) ==
    IF hasMountedChildren(this) THEN firstElementChildGetterPatched(this)
    ELSE firstElementChildGetter(this)

\* Element.prototype.lastElementChild
lastElementChild(this) ==
    IF hasMountedChildren(this) THEN lastElementChildGetterPatched(this)
    ELSE lastElementChildGetter(this)

\* querySelectorPatched, `this` a host (element with shadowRoot attached)
querySelector_host(this, nodeList) ==
    LET owner == getNodeOwner(this) IN
    IF owner = NoNode THEN Null
    ELSE IF getNodeKey(this) # NoKey THEN getFirstSlottedMatch(this, nodeList)
    ELSE getFirstMatch(owner, nodeList)

\* querySelectorPatched, `this` an element inside a shadowRoot
querySelector_shadowed(this, nodeList) ==
    LET ownerKey == getNodeOwnerKey(this) IN
    IF ownerKey # NoKey
    THEN OrNull(ArrayFind(nodeList, LAMBDA elm : getNodeNearestOwnerKey(elm) = ownerKey))
    ELSE IF ~ENABLE_NODE_LIST_PATCH
    THEN IF Len(nodeList) = 0 THEN Null ELSE nodeList[1]
    ELSE LET contextNearestOwnerKey == getNodeNearestOwnerKey(this) IN
         OrNull(ArrayFind(nodeList,
             LAMBDA elm : getNodeNearestOwnerKey(elm) = contextNearestOwnerKey))

\* the mutant of querySelector_document: the first candidate is returned
\* unfiltered for document.body too
querySelector_documentNoBodyTest(this, nodeList) ==
    IF ~ENABLE_NODE_LIST_PATCH
    THEN OrNull(Item(nodeList, 0))
    ELSE OrNull(ArrayFind(nodeList,
             LAMBDA elm : getNodeOwnerKey(elm) = NoKey \/ isGlobalPatchingSkipped(this)))

\* querySelectorPatched, `this` an element belonging to the document
querySelector_document(this, nodeList) ==
    IF ~ENABLE_NODE_LIST_PATCH /\ ~isHTMLBodyElement(this)
    THEN OrNull(Item(nodeList, 0))
    ELSE OrNull(ArrayFind(nodeList,
             LAMBDA elm : getNodeOwnerKey(elm) = NoKey \/ isGlobalPatchingSkipped(this)))

querySelectorPatched(this, nodeList) ==
    IF isHostElement(this) THEN querySelector_host(this, nodeList)
    ELSE IF isNodeShadowed(this) THEN querySelector_shadowed(this, nodeList)
    ELSE querySelector_document(this, nodeList)

\* the mutant of getFiltered_host: the slotted matches are taken among the
\* child nodes of the context, as the children getter does
getFiltered_hostChildNodes(ctx, unfilteredNodes) ==
    LET owner == getNodeOwner(ctx) IN
    IF owner = NoNode THEN <<>>
    ELSE IF getNodeKey(ctx) # NoKey
    THEN getAllSlottedMatches(ctx, getFilteredChildNodes(ctx))
    ELSE getAllMatches(owner, unfilteredNodes)

\* a mutant of getFiltered_host: a host with no owner gets the native list
getFiltered_hostNoOwnerTest(ctx, unfilteredNodes) ==
    LET owner == getNodeOwner(ctx) IN
    IF owner = NoNode THEN unfilteredNodes
    ELSE IF getNodeKey(ctx) # NoKey THEN getAllSlottedMatches(ctx, unfilteredNodes)
    ELSE getAllMatches(owner, unfilteredNodes)

\* getFilteredArrayOfNodes, the context a host (element with shadowRoot attached)
getFiltered_host(ctx, unfilteredNodes) ==
    LET owner == getNodeOwner(ctx) IN
    IF owner = NoNode THEN <<>>
    ELSE IF getNodeKey(ctx) # NoKey THEN getAllSlottedMatches(ctx, unfilteredNodes)
    ELSE getAllMatches(owner, unfilteredNodes)

\* a mutant of getFiltered_shadowed: the candidates are tested with their own
\* owner key
getFiltered_shadowedOwnKey(ctx, unfilteredNodes, shadowDomSemantic) ==
    LET ownerKey == getNodeOwnerKey(ctx) IN
    IF ownerKey # NoKey
    THEN ArrayFilter(unfilteredNodes, LAMBDA elm : getNodeOwnerKey(elm) = ownerKey)
    ELSE IF shadowDomSemantic = Enabled
    THEN LET contextNearestOwnerKey == getNodeNearestOwnerKey(ctx) IN
         ArrayFilter(unfilteredNodes,
             LAMBDA elm : getNodeNearestOwnerKey(elm) = contextNearestOwnerKey)
    ELSE unfilteredNodes

\* getFilteredArrayOfNodes, the context an element inside a shadowRoot
getFiltered_shadowed(ctx, unfilteredNodes, shadowDomSemantic) ==
    LET ownerKey == getNodeOwnerKey(ctx) IN
    IF ownerKey # NoKey
    THEN ArrayFilter(unfilteredNodes, LAMBDA elm : getNodeNearestOwnerKey(elm) = ownerKey)
    ELSE IF shadowDomSemantic = Enabled
    THEN LET contextNearestOwnerKey == getNodeNearestOwnerKey(ctx) IN
         ArrayFilter(unfilteredNodes,
             LAMBDA elm : getNodeNearestOwnerKey(elm) = contextNearestOwnerKey)
    ELSE unfilteredNodes

\* a mutant of getFiltered_document: ArraySlice.call(unfilteredNodes, 1)
getFiltered_documentSlice1(ctx, unfilteredNodes, shadowDomSemantic) ==
    IF isHTMLBodyElement(ctx) \/ shadowDomSemantic = Enabled
    THEN ArrayFilter(unfilteredNodes,
             LAMBDA elm : getNodeOwnerKey(elm) = NoKey \/ isGlobalPatchingSkipped(ctx))
    ELSE IF unfilteredNodes = <<>> THEN <<>> ELSE Tail(unfilteredNodes)

\* a mutant of getFiltered_document: the candidates are tested with their
\* nearest owner key
getFiltered_documentNearestKey(ctx, unfilteredNodes, shadowDomSemantic) ==
    IF isHTMLBodyElement(ctx) \/ shadowDomSemantic = Enabled
    THEN ArrayFilter(unfilteredNodes,
             LAMBDA elm : getNodeNearestOwnerKey(elm) = NoKey
                          \/ isGlobalPatchingSkipped(ctx))
    ELSE unfilteredNodes

\* getFilteredArrayOfNodes, the context belonging to the document
getFiltered_document(ctx, unfilteredNodes, shadowDomSemantic) ==
    IF isHTMLBodyElement(ctx) \/ shadowDomSemantic = Enabled
    THEN ArrayFilter(unfilteredNodes,
             LAMBDA elm : getNodeOwnerKey(elm) = NoKey \/ isGlobalPatchingSkipped(ctx))
    ELSE unfilteredNodes

getFilteredArrayOfNodes(ctx, unfilteredNodes, shadowDomSemantic) ==
    IF isHostElement(ctx) THEN getFiltered_host(ctx, unfilteredNodes)
    ELSE IF isNodeShadowed(ctx)
    THEN getFiltered_shadowed(ctx, unfilteredNodes, shadowDomSemantic)
    ELSE getFiltered_document(ctx, unfilteredNodes, shadowDomSemantic)

\* Element.prototype.querySelectorAll
querySelectorAll(this, nodeList) ==
    IF ~ENABLE_NODE_LIST_PATCH
    THEN getFilteredArrayOfNodes(this, nodeList, Disabled)
    ELSE getFilteredArrayOfNodes(this, nodeList, Enabled)

(***************************************************************************)
(* The traversal calls.                                                     *)
(***************************************************************************)
NoCall == [op |-> "none", list |-> <<>>, node |-> Null, count |-> 0]

\* the native result the patched method starts from
Candidates == elementQuerySelectorAll(context, selector)

ShadowDomSemantic == IF ENABLE_NODE_LIST_PATCH THEN Enabled ELSE Disabled

CallQuerySelector ==
    /\ call = NoCall
    /\ call' = [op |-> "querySelector", list |-> <<>>,
                node |-> querySelectorPatched(context, Candidates), count |-> 0]
    /\ UNCHANGED <<context, selector, ENABLE_NODE_LIST_PATCH, skipGlobalPatching>>
    /\ UNCHANGED textVars
    /\ UNCHANGED hostVars

CallQuerySelectorAll ==
    /\ call = NoCall
    /\ call' = [op |-> "querySelectorAll", list |-> querySelectorAll(context, Candidates),
                node |-> Null, count |-> 0]
    /\ UNCHANGED <<context, selector, ENABLE_NODE_LIST_PATCH, skipGlobalPatching>>
    /\ UNCHANGED textVars
    /\ UNCHANGED hostVars

\* getFilteredArrayOfNodes applied to the list querySelectorAll returned
CallFilterAgain ==
    /\ call.op = "querySelectorAll"
    /\ call' = [op |-> "filterAgain",
                list |-> getFilteredArrayOfNodes(context, call.list, ShadowDomSemantic),
                node |-> Null, count |-> 0]
    /\ UNCHANGED <<context, selector, ENABLE_NODE_LIST_PATCH, skipGlobalPatching>>
    /\ UNCHANGED textVars
    /\ UNCHANGED hostVars

CallChildren ==
    /\ call = NoCall
    /\ call' = [op |-> "children", list |-> children(context), node |-> Null, count |-> 0]
    /\ UNCHANGED <<context, selector, ENABLE_NODE_LIST_PATCH, skipGlobalPatching>>
    /\ UNCHANGED textVars
    /\ UNCHANGED hostVars

CallChildElementCount ==
    /\ call = NoCall
    /\ call' = [op |-> "childElementCount", list |-> <<>>, node |-> Null,
                count |-> childElementCount(context)]
    /\ UNCHANGED <<context, selector, ENABLE_NODE_LIST_PATCH, skipGlobalPatching>>
    /\ UNCHANGED textVars
    /\ UNCHANGED hostVars

CallFirstElementChild ==
    /\ call = NoCall
    /\ call' = [op |-> "firstElementChild", list |-> <<>>,
                node |-> firstElementChild(context), count |-> 0]
    /\ UNCHANGED <<context, selector, ENABLE_NODE_LIST_PATCH, skipGlobalPatching>>
    /\ UNCHANGED textVars
    /\ UNCHANGED hostVars

CallLastElementChild ==
    /\ call = NoCall
    /\ call' = [op |-> "lastElementChild", list |-> <<>>,
                node |-> lastElementChild(context), count |-> 0]
    /\ UNCHANGED <<context, selector, ENABLE_NODE_LIST_PATCH, skipGlobalPatching>>
    /\ UNCHANGED textVars
    /\ UNCHANGED hostVars

\* a window with a Selection and no handler
PlainWindow ==
    [onselect |-> Null, onselectstart |-> Null, onselectionchange |-> Null,
     selection |-> "Selection"]

\* the SelectionState of a call that captured none
NullState ==
    [element |-> Null, onselect |-> Null, onselectstart |-> Null,
     onselectionchange |-> Null, ranges |-> <<>>]

\* no getInnerText call is under way
NoTextCall ==
    /\ element = "body"
    /\ win = PlainWindow
    /\ ranges = <<>>
    /\ selectionState = NullState
    /\ idx = 0
    /\ before = [win |-> win, ranges |-> ranges]

TextIdle ==
    /\ dom = Document
    /\ pc = "idle"
    /\ results = <<>>
    /\ ret = NoValue
    /\ NoTextCall

\* no traversal call is made
QueryIdle ==
    /\ context = "body"
    /\ selector = {}
    /\ ENABLE_NODE_LIST_PATCH = TRUE
    /\ skipGlobalPatching = FALSE
    /\ call = NoCall

InitQuery ==
    /\ TextIdle
    /\ HostIdle
    /\ context \in Elements
    /\ selector \in Selectors
    /\ ENABLE_NODE_LIST_PATCH \in BOOLEAN
    /\ skipGlobalPatching \in BOOLEAN
    /\ call = NoCall

NextQuery ==
    \/ CallQuerySelector
    \/ CallQuerySelectorAll
    \/ CallFilterAgain
    \/ CallChildren
    \/ CallChildElementCount
    \/ CallFirstElementChild
    \/ CallLastElementChild

SpecQuery == InitQuery /\ [][NextQuery]_vars

(***************************************************************************)
(* Properties of the patched traversal.                                     *)
(***************************************************************************)
\* the context belongs to the document: no host, no own or inherited key
IsDocumentContext == ~isHostElement(context) /\ ~isNodeShadowed(context)

HasOwnerKey(n) == getNodeOwnerKey(n) # NoKey

RECURSIVE IsSubsequence(_, _)
IsSubsequence(a, b) ==
    IF a = <<>> THEN TRUE
    ELSE IF b = <<>> THEN FALSE
    ELSE IF Head(a) = Head(b) THEN IsSubsequence(Tail(a), Tail(b))
    ELSE IsSubsequence(a, Tail(b))

NoDuplicates(list) == \A i, j \in DOMAIN list : list[i] = list[j] => i = j

\* C6: for every context, candidate list and setting of ENABLE_NODE_LIST_PATCH,
\* querySelector returns the first element of what querySelectorAll returns
\* for the same context and candidates, and null exactly when that list is
\* empty.
C6_QuerySelectorIsFirstOfAll ==
    call.op = "querySelector" =>
        /\ call.node = Null <=> querySelectorAll(context, Candidates) = <<>>
        /\ call.node # Null => call.node = querySelectorAll(context, Candidates)[1]

\* C6 witness: querySelector on a host returned an element that is not the
\* first candidate
C6_Witness ==
    /\ call.op = "querySelector"
    /\ isHostElement(context)
    /\ call.node # Null
    /\ call.node # Candidates[1]

\* C7: the list querySelectorAll returns is a subsequence of the native
\* candidate list: only candidates, none twice, in the same relative order.
C7_TreeOrderPreserved ==
    call.op = "querySelectorAll" =>
        /\ IsSubsequence(call.list, Candidates)
        /\ NoDuplicates(call.list)

\* C7 witness: querySelectorAll dropped a candidate that stands between two
\* candidates it kept
C7_Witness ==
    /\ call.op = "querySelectorAll"
    /\ \E i, j, k \in DOMAIN Candidates :
           /\ i < j /\ j < k
           /\ Candidates[i] \in Range(call.list)
           /\ Candidates[j] \notin Range(call.list)
           /\ Candidates[k] \in Range(call.list)

\* C8: filtering the list getFilteredArrayOfNodes returned a second time with
\* the same context and semantic mode gives the same list.
C8_FilterIdempotent ==
    call.op = "filterAgain" =>
        call.list = getFilteredArrayOfNodes(context, Candidates, ShadowDomSemantic)

\* C8 witness: a list from which the first filtering had dropped candidates
\* has been filtered again
C8_Witness ==
    /\ call.op = "filterAgain"
    /\ Len(call.list) >= 1
    /\ Len(call.list) < Len(Candidates)

\* C9: childElementCount is children.length, firstElementChild is children[0]
\* and lastElementChild is children[children.length - 1], each null when
\* children is empty, with and without mounted children.
C9_AccessorsAgreeWithChildren ==
    /\ call.op = "childElementCount" => call.count = Len(children(context))
    /\ call.op = "firstElementChild" =>
            call.node = IF children(context) = <<>> THEN Null ELSE children(context)[1]
    /\ call.op = "lastElementChild" =>
            call.node = IF children(context) = <<>> THEN Null
                        ELSE children(context)[Len(children(context))]

\* C9 witness: the count of a host whose filtered children differ from its
\* native ones has been read
C9_Witness ==
    /\ call.op = "childElementCount"
    /\ hasMountedChildren(context)
    /\ call.count >= 1
    /\ call.count # childElementCountGetter(context)

FirstOrNull(list) == IF list = <<>> THEN Null ELSE list[1]

\* the context lives in a shadow tree and is no host
IsShadowedContext == ~isHostElement(context) /\ isNodeShadowed(context)

\* the candidates whose nearest owner key is the given key
OwnedBy(ownerKey) ==
    SelectSeq(Candidates, LAMBDA elm : getNodeNearestOwnerKey(elm) = ownerKey)

\* C11 as amended: for a shadowed context that is no host, querySelectorAll
\* keeps exactly the candidates whose nearest owner key is the context's own
\* key when the context carries one; when it carries none and
\* ENABLE_NODE_LIST_PATCH is on, exactly the candidates whose nearest owner
\* key is the nearest owner key of the context; when it carries none and the
\* flag is off, every candidate, those of other shadow trees included.
\* querySelector returns the first element of the same list.
C11_ShadowedContext ==
    IsShadowedContext =>
        LET expected ==
                IF HasOwnerKey(context) THEN OwnedBy(getNodeOwnerKey(context))
                ELSE IF ENABLE_NODE_LIST_PATCH
                THEN OwnedBy(getNodeNearestOwnerKey(context))
                ELSE Candidates
        IN /\ call.op = "querySelectorAll" => call.list = expected
           /\ call.op = "querySelector" => call.node = FirstOrNull(expected)

\* C11 witness: with the flag on, querySelectorAll on an element inserted by
\* hand dropped the candidates of another shadow tree and kept others
C11_Witness ==
    /\ IsShadowedContext
    /\ ~HasOwnerKey(context)
    /\ ENABLE_NODE_LIST_PATCH
    /\ call.op = "querySelectorAll"
    /\ Len(call.list) >= 1
    /\ Len(call.list) < Len(Candidates)

\* C11 as stated: the candidates of other shadow trees are never returned,
\* whatever the flag
C11_AsStated ==
    (IsShadowedContext /\ call.op = "querySelectorAll") =>
        call.list = OwnedBy(getNodeNearestOwnerKey(context))

\* the context is a host whose owner cannot be resolved
IsUnownedHost == isHostElement(context) /\ getNodeOwner(context) = NoNode

\* C12: for a host whose owner cannot be resolved, querySelectorAll and the
\* children getter return an empty collection and querySelector returns
\* null, whatever the native candidates are.
C12_UnownedHost ==
    IsUnownedHost =>
        /\ call.op = "querySelectorAll" => call.list = <<>>
        /\ call.op = "children" => call.list = <<>>
        /\ call.op = "querySelector" => call.node = Null

\* C12 witness: querySelectorAll returned on a host with no owner and three
\* or more native candidates
C12_Witness ==
    /\ IsUnownedHost
    /\ call.op = "querySelectorAll"
    /\ Len(Candidates) >= 3
    /\ childrenGetter(context) # <<>>

\* the rule of the document branch: the candidates with no owner key, every
\* candidate when global patching is skipped for the context
DocumentRule ==
    IF isGlobalPatchingSkipped(context) THEN Candidates
    ELSE SelectSeq(Candidates, LAMBDA elm : ~HasOwnerKey(elm))

\* C10 as amended: for a context that belongs to the document, when
\* ENABLE_NODE_LIST_PATCH is on or the context is document.body,
\* querySelectorAll keeps exactly the candidates with no owner key (every
\* candidate when global patching is skipped) and querySelector returns the
\* first of them; when the flag is off and the context is not document.body,
\* querySelectorAll returns every candidate and querySelector the first one.
C10_DocumentContext ==
    IsDocumentContext =>
        LET expected == IF ENABLE_NODE_LIST_PATCH \/ isHTMLBodyElement(context)
                        THEN DocumentRule ELSE Candidates
        IN /\ call.op = "querySelectorAll" => call.list = expected
           /\ call.op = "querySelector" => call.node = FirstOrNull(expected)

\* C10 witness: with the flag on, querySelectorAll on a document element
\* dropped the candidates that carry an owner key and kept others
C10_Witness ==
    /\ IsDocumentContext
    /\ ENABLE_NODE_LIST_PATCH
    /\ ~skipGlobalPatching
    /\ call.op = "querySelectorAll"
    /\ Len(call.list) >= 1
    /\ Len(call.list) < Len(Candidates)

\* C10 as stated: for a document context the rule applies whatever the flag
C10_AsStated ==
    IsDocumentContext =>
        /\ call.op = "querySelectorAll" => call.list = DocumentRule
        /\ call.op = "querySelector" => call.node = FirstOrNull(DocumentRule)

(***************************************************************************)
(* faux-shadow/element.ts: attachShadow and the shadowRoot getter.          *)
(***************************************************************************)
SyntheticRoot == "synthetic ShadowRoot"
NativeRoot == "native ShadowRoot"

\* the ShadowRootInit of a call: its mode and the '$$lwc-synthetic-mode$$' flag
ShadowRootInits == [mode : {"open", "closed"}, synthetic : BOOLEAN]

\* the synthetic shadow root of a host
getShadowRoot(this) == [root |-> SyntheticRoot, mode |-> syntheticMode]

\* the native getter: the native shadow root when it is open
originalShadowRootGetter(this) == IF nativeMode = "open" THEN NativeRoot ELSE Null

\* a mutant of shadowRootGetterPatched: the mode is not looked at
shadowRootGetterPatched_anyMode(this) ==
    IF isHostElement(this) THEN getShadowRoot(this).root
    ELSE originalShadowRootGetter(this)

shadowRootGetterPatched(this) ==
    IF isHostElement(this) /\ getShadowRoot(this).mode = "open"
    THEN getShadowRoot(this).root
    ELSE originalShadowRootGetter(this)

\* the native attachShadow accepts custom elements and a few tags, once
originalAttachShadow_accepts(this) ==
    /\ nativeMode = "none"
    /\ dom[this].tagName \notin {"SLOT"}

\* attachShadowPatched, returning normally: a synthetic root on an element
\* that has none, or a native root
AttachShadow ==
    /\ \E options \in ShadowRootInits :
          IF options.synthetic
          THEN /\ ~isHostElement(context)
               /\ dom' = [dom EXCEPT ![context].host = TRUE]
               /\ syntheticMode' = options.mode
               /\ UNCHANGED nativeMode
          ELSE /\ originalAttachShadow_accepts(context)
               /\ nativeMode' = options.mode
               /\ UNCHANGED <<dom, syntheticMode>>
    /\ call' = [op |-> "attachShadow", list |-> <<>>, node |-> Null, count |-> 0]
    /\ UNCHANGED <<pc, results, ret>>
    /\ UNCHANGED selectionVars
    /\ UNCHANGED <<context, selector, ENABLE_NODE_LIST_PATCH, skipGlobalPatching>>
    /\ UNCHANGED focusVars
    /\ UNCHANGED loop

\* element.shadowRoot
CallShadowRoot ==
    /\ call' = [op |-> "shadowRoot", list |-> <<>>,
                node |-> shadowRootGetterPatched(context), count |-> 0]
    /\ UNCHANGED <<context, selector, ENABLE_NODE_LIST_PATCH, skipGlobalPatching>>
    /\ UNCHANGED textVars
    /\ UNCHANGED hostVars

\* the hosts of the document have a synthetic shadow root, open or closed
InitShadow ==
    /\ TextIdle
    /\ context \in Elements
    /\ selector = {}
    /\ ENABLE_NODE_LIST_PATCH = TRUE
    /\ skipGlobalPatching = FALSE
    /\ call = NoCall
    /\ syntheticMode \in IF isHostElement(context) THEN {"open", "closed"} ELSE {"none"}
    /\ nativeMode = "none"
    /\ FocusIdle
    /\ LoopIdle

NextShadow ==
    \/ AttachShadow
    \/ CallShadowRoot

SpecShadow == InitShadow /\ [][NextShadow]_vars

Ev(fn, target, args) == [fn |-> fn, target |-> target, args |-> args]

hasAttribute(this) == tabindex.has

\* the native getter: the attribute, or the default of an element that is
\* not focusable by itself
tabIndexGetter(this) == IF tabindex.has THEN tabindex.value ELSE -1

\* the native setter reflects the value into the attribute
tabIndexSetter(this, value) == [has |-> TRUE, value |-> value]

isDelegatingFocus(this) == isHostElement(this) /\ delegatesFocus

\* a mutant of tabIndexGetterPatched: the native value, always
tabIndexGetterPatched_native(this) == tabIndexGetter(this)

tabIndexGetterPatched(this) ==
    IF isDelegatingFocus(this) /\ hasAttribute(this) = FALSE THEN 0
    ELSE tabIndexGetter(this)

\* HTMLElement.prototype.tabIndex, get
tabIndexGet(this) ==
    IF isHostElement(this) THEN tabIndexGetterPatched(this) ELSE tabIndexGetter(this)

\* a mutant of tabIndexSetter_remove: the listeners of the previous value stay
tabIndexSetter_removeNothing(this, prev, curr) == <<>>

\* a mutant of tabIndexSetter_remove: a changed value alone removes nothing
tabIndexSetter_removeOnMissing(this, prev, curr) ==
    IF prev.has /\ curr.has = FALSE
    THEN (IF prev.value = -1 THEN <<Ev("ignoreFocusIn", this, <<>>)>> ELSE <<>>)
         \o (IF prev.value = 0 /\ isDelegatingFocus(this)
             THEN <<Ev("ignoreFocus", this, <<>>)>> ELSE <<>>)
    ELSE <<>>

\* tabIndexSetterPatched, the listeners of the previous value
tabIndexSetter_remove(this, prev, curr) ==
    LET didValueChange == prev.value # curr.value
    IN IF prev.has /\ (didValueChange \/ curr.has = FALSE)
       THEN (IF prev.value = -1 THEN <<Ev("ignoreFocusIn", this, <<>>)>> ELSE <<>>)
            \o (IF prev.value = 0 /\ isDelegatingFocus(this)
                THEN <<Ev("ignoreFocus", this, <<>>)>> ELSE <<>>)
       ELSE <<>>

\* a mutant of tabIndexSetter_add: an unchanged value registers again
tabIndexSetter_addAlways(this, prev, curr) ==
    IF curr.has = FALSE THEN <<>>
    ELSE (IF curr.value = -1 THEN <<Ev("handleFocusIn", this, <<>>)>> ELSE <<>>)
         \o (IF curr.value = 0 /\ isDelegatingFocus(this)
             THEN <<Ev("handleFocus", this, <<>>)>> ELSE <<>>)

\* tabIndexSetterPatched, the listeners of the current value
tabIndexSetter_add(this, prev, curr) ==
    LET didValueChange == prev.value # curr.value
    IN IF curr.has = FALSE THEN <<>>
       ELSE IF prev.has /\ curr.has /\ didValueChange = FALSE THEN <<>>
       ELSE (IF curr.value = -1 THEN <<Ev("handleFocusIn", this, <<>>)>> ELSE <<>>)
            \o (IF curr.value = 0 /\ isDelegatingFocus(this)
                THEN <<Ev("handleFocus", this, <<>>)>> ELSE <<>>)

tabIndexSetterPatched(this, value) ==
    LET prev == [has |-> hasAttribute(this), value |-> tabIndexGetter(this)]
        after == tabIndexSetter(this, value)
        curr == [has |-> after.has, value |-> after.value]
    IN <<Ev("tabIndexSetter", this, <<value>>)>>
       \o tabIndexSetter_remove(this, prev, curr)
       \o tabIndexSetter_add(this, prev, curr)

\* HTMLElement.prototype.tabIndex, set
tabIndexSet(this, value) ==
    IF isHostElement(this) THEN tabIndexSetterPatched(this, value)
    ELSE <<Ev("tabIndexSetter", this, <<value>>)>>

\* the element that holds focus when it is a descendant of the host
getActiveElement(host) ==
    IF activeElement # Null /\ activeElement # host /\ Contains(host, activeElement)
    THEN activeElement
    ELSE Null

\* a mutant of blurPatched: the native blur of the host, always
blurPatched_native(this) == <<Ev("blur", this, <<>>)>>

blurPatched(this) ==
    IF isDelegatingFocus(this) /\ getActiveElement(this) # Null
    THEN <<Ev("blur", getActiveElement(this), <<>>)>>
    ELSE <<Ev("blur", this, <<>>)>>

\* HTMLElement.prototype.blur
blurValue(this) ==
    IF isHostElement(this) THEN blurPatched(this) ELSE <<Ev("blur", this, <<>>)>>

\* the shadow's focus routine: focus() of the first descendant that takes
\* focus, nothing when there is none
hostElementFocus(this) ==
    LET inside == SelectSeq(Subtree(this), LAMBDA n : n # this /\ n \in focusable)
    IN IF inside = <<>> THEN <<>>
       ELSE <<Ev("disableKeyboardFocusNavigationRoutines", Null, <<>>),
              Ev("focus", inside[1], <<>>),
              Ev("enableKeyboardFocusNavigationRoutines", Null, <<>>)>>

\* a mutant of focusPatched: the native focus of the target, always
focusPatched_native(this, arguments) ==
    <<Ev("disableKeyboardFocusNavigationRoutines", Null, <<>>),
      Ev("focus", this, arguments),
      Ev("enableKeyboardFocusNavigationRoutines", Null, <<>>)>>

focusPatched(this, arguments) ==
    <<Ev("disableKeyboardFocusNavigationRoutines", Null, <<>>)>>
    \o (IF isHostElement(this) /\ isDelegatingFocus(this)
        THEN <<Ev("hostElementFocus", this, <<>>)>> \o hostElementFocus(this)
        ELSE <<Ev("focus", this, arguments),
               Ev("enableKeyboardFocusNavigationRoutines", Null, <<>>)>>)

\* what the routines do to the listeners, the attribute, the navigation
\* routines and the focus
FocusState ==
    [tabindex |-> tabindex, listeners |-> listeners, routinesEnabled |-> routinesEnabled,
     activeElement |-> activeElement]

ApplyEv(st, e) ==
    CASE e.fn = "tabIndexSetter" ->
            [st EXCEPT !.tabindex = [has |-> TRUE, value |-> e.args[1]]]
      [] e.fn = "handleFocusIn" -> [st EXCEPT !.listeners.focusin = TRUE]
      [] e.fn = "ignoreFocusIn" -> [st EXCEPT !.listeners.focusin = FALSE]
      [] e.fn = "handleFocus" -> [st EXCEPT !.listeners.focus = TRUE]
      [] e.fn = "ignoreFocus" -> [st EXCEPT !.listeners.focus = FALSE]
      [] e.fn = "disableKeyboardFocusNavigationRoutines" ->
            [st EXCEPT !.routinesEnabled = FALSE]
      [] e.fn = "enableKeyboardFocusNavigationRoutines" ->
            [st EXCEPT !.routinesEnabled = TRUE]
      [] e.fn = "focus" ->
            IF e.target \in focusable \/ (e.target = context /\ st.tabindex.has)
            THEN [st EXCEPT !.activeElement = e.target]
            ELSE st
      [] e.fn = "blur" ->
            IF st.activeElement = e.target THEN [st EXCEPT !.activeElement = Null]
            ELSE st
      [] OTHER -> st

RECURSIVE ApplyEvs(_, _, _)
ApplyEvs(st, evs, i) ==
    IF i > Len(evs) THEN st ELSE ApplyEvs(ApplyEv(st, evs[i]), evs, i + 1)

\* the call just made becomes the call before the last
Remember ==
    prior' = [op |-> call.op, count |-> call.count, tabindex |-> tabindex,
              listeners |-> listeners, activeElement |-> activeElement]

\* one call: the routines it calls, in order, and the state they leave
FocusCall(op, count, evs) ==
    LET st == ApplyEvs(FocusState, evs, 1)
    IN /\ call' = [op |-> op, list |-> evs, node |-> Null, count |-> count]
       /\ tabindex' = st.tabindex
       /\ listeners' = st.listeners
       /\ routinesEnabled' = st.routinesEnabled
       /\ activeElement' = st.activeElement
       /\ Remember
       /\ UNCHANGED <<delegatesFocus, focusable>>
       /\ UNCHANGED <<context, selector, ENABLE_NODE_LIST_PATCH, skipGlobalPatching>>
       /\ UNCHANGED textVars
       /\ UNCHANGED shadowVars
       /\ UNCHANGED loop

TabIndexValues == {-1, 0, 1}
FocusArguments == {<<>>, <<"preventScroll">>}

\* element.tabIndex = value
SetTabIndex ==
    \E value \in TabIndexValues :
        FocusCall("tabIndex=", value, tabIndexSet(context, value))

\* element.tabIndex
GetTabIndex == FocusCall("tabIndex", tabIndexGet(context), <<>>)

\* the attribute is no longer rendered: element.removeAttribute('tabindex')
RemoveTabindex ==
    /\ tabindex.has
    /\ call' = [op |-> "removeAttribute", list |-> <<>>, node |-> Null, count |-> 0]
    /\ tabindex' = NoTabindex
    /\ Remember
    /\ UNCHANGED <<delegatesFocus, listeners, routinesEnabled, activeElement, focusable>>
    /\ UNCHANGED <<context, selector, ENABLE_NODE_LIST_PATCH, skipGlobalPatching>>
    /\ UNCHANGED textVars
    /\ UNCHANGED shadowVars
    /\ UNCHANGED loop

\* element.focus(...arguments)
CallFocus ==
    \E arguments \in FocusArguments :
        FocusCall("focus", Len(arguments), focusPatched(context, arguments))

\* element.blur()
CallBlur == FocusCall("blur", 0, blurValue(context))

FocusTargets == {"x_container", "h0", "h3", "s0", "doc_span"}
FocusableSets == {{}, {"s0"}, {"h0", "s0", "doc_span"}}
ActiveElements == {Null, "s0", "h0", "doc_span"}

\* an element, host or not, whose tabindex attribute may have been rendered
\* before any setter ran
InitFocus ==
    /\ TextIdle
    /\ ShadowIdle
    /\ LoopIdle
    /\ context \in FocusTargets
    /\ selector = {}
    /\ ENABLE_NODE_LIST_PATCH = TRUE
    /\ skipGlobalPatching = FALSE
    /\ call = NoCall
    /\ delegatesFocus \in IF isHostElement(context) THEN BOOLEAN ELSE {FALSE}
    /\ tabindex \in {NoTabindex} \cup [has : {TRUE}, value : TabIndexValues]
    /\ listeners = NoListeners
    /\ routinesEnabled = TRUE
    /\ focusable \in FocusableSets
    /\ activeElement \in {Null} \cup (ActiveElements \cap focusable)
    /\ prior = NoPrior

NextFocus ==
    \/ SetTabIndex
    \/ GetTabIndex
    \/ RemoveTabindex
    \/ CallFocus
    \/ CallBlur

SpecFocus == InitFocus /\ [][NextFocus]_vars

Fns(evs) == {evs[i].fn : i \in DOMAIN evs}
ListenerRoutines == {"handleFocusIn", "handleFocus", "ignoreFocusIn", "ignoreFocus"}

\* C14: on a host whose shadow delegates focus, tabIndex = -1 followed
\* directly by tabIndex = 0 calls ignoreFocusIn and leaves handleFocus
\* registered and handleFocusIn unregistered.
C14_RoundTrip ==
    (/\ isDelegatingFocus(context)
     /\ prior.op = "tabIndex=" /\ prior.count = -1
     /\ call.op = "tabIndex=" /\ call.count = 0) =>
        /\ listeners = [focusin |-> FALSE, focus |-> TRUE]
        /\ "ignoreFocusIn" \in Fns(call.list)

\* C14 witness: the second assignment of the round trip has been made on a
\* delegating host, and the first one had registered handleFocusIn
C14_Witness ==
    /\ isDelegatingFocus(context)
    /\ prior.op = "tabIndex=" /\ prior.count = -1
    /\ prior.listeners.focusin
    /\ call.op = "tabIndex=" /\ call.count = 0
    /\ listeners.focus

\* C15: assigning to tabIndex of a host the value it has, with the attribute
\* present before and after, calls none of handleFocusIn, handleFocus,
\* ignoreFocusIn, ignoreFocus and leaves the registrations as they were.
C15_SameValue ==
    (/\ isHostElement(context)
     /\ call.op = "tabIndex="
     /\ prior.tabindex.has /\ tabindex.has
     /\ prior.tabindex.value = call.count) =>
        /\ Fns(call.list) \cap ListenerRoutines = {}
        /\ listeners = prior.listeners

\* C15 witness: the same value assigned twice in a row to a host, a listener
\* being registered
C15_Witness ==
    /\ isHostElement(context)
    /\ call.op = "tabIndex=" /\ prior.op = "tabIndex="
    /\ prior.count = call.count
    /\ prior.tabindex.has /\ tabindex.has
    /\ prior.tabindex.value = call.count
    /\ listeners.focusin

\* C16 as stated: when a call of focus() has returned the keyboard focus
\* navigation routines are enabled.
C16_RoutinesReenabled == call.op = "focus" => routinesEnabled

\* C16 witness: focus() of a host that delegates focus has returned and the
\* routines are still disabled
C16_Witness ==
    /\ call.op = "focus"
    /\ isDelegatingFocus(context)
    /\ ~routinesEnabled

\* C17: focus() of a host that delegates focus calls hostElementFocus and
\* not the native focus of the host; focus() of every other target calls the
\* native focus of the target with the arguments of the caller and does not
\* call hostElementFocus.
C17_FocusRouting ==
    call.op = "focus" =>
        IF isHostElement(context) /\ isDelegatingFocus(context)
        THEN /\ Ev("hostElementFocus", context, <<>>) \in Range(call.list)
             /\ \A i \in DOMAIN call.list :
                    ~(call.list[i].fn = "focus" /\ call.list[i].target = context)
        ELSE /\ \E i \in DOMAIN call.list :
                    /\ call.list[i].fn = "focus"
                    /\ call.list[i].target = context
                    /\ Len(call.list[i].args) = call.count
             /\ "hostElementFocus" \notin Fns(call.list)

\* C17 witness: focus() of a delegating host went to an element of its shadow
C17_Witness ==
    /\ call.op = "focus"
    /\ isDelegatingFocus(context)
    /\ \E i \in DOMAIN call.list :
           call.list[i].fn = "focus" /\ call.list[i].target # context

\* C18: blur() of a host that delegates focus and holds the active element
\* blurs the active element and not the host; blur() of every other target
\* calls the native blur of the target.
C18_BlurRouting ==
    call.op = "blur" =>
        LET inside == /\ prior.activeElement # Null
                      /\ prior.activeElement # context
                      /\ Contains(context, prior.activeElement)
        IN IF isHostElement(context) /\ delegatesFocus /\ inside
           THEN call.list = <<Ev("blur", prior.activeElement, <<>>)>>
           ELSE call.list = <<Ev("blur", context, <<>>)>>

\* C18 witness: blur() of a delegating host blurred the element inside it
\* that held focus
C18_Witness ==
    /\ call.op = "blur"
    /\ isDelegatingFocus(context)
    /\ prior.activeElement \notin {Null, context}
    /\ call.list = <<Ev("blur", prior.activeElement, <<>>)>>
    /\ activeElement = Null

\* C19: the tabIndex getter returns 0 for a host whose shadow delegates focus
\* and that has no tabindex attribute, and the native value in every other
\* case.
C19_TabIndexGetter ==
    call.op = "tabIndex" =>
        call.count = IF isHostElement(context) /\ delegatesFocus /\ ~tabindex.has THEN 0
                     ELSE IF tabindex.has THEN tabindex.value
                     ELSE -1

\* C19 witness: the getter returned 0 where the native value is -1
C19_Witness ==
    /\ call.op = "tabIndex"
    /\ isHostElement(context) /\ delegatesFocus /\ ~tabindex.has
    /\ call.count = 0

(***************************************************************************)
(* Inner text items: strings and required line break counts.               *)
(***************************************************************************)
Num(n) == [t |-> "number", n |-> n, s |-> <<>>]
Str(s) == [t |-> "string", n |-> 0, s |-> s]
Undefined == [t |-> "undefined", n |-> 0, s |-> <<>>]

LF == <<"\n">>
TAB == <<"\t">>

\* results[i] of a JavaScript array: undefined out of range
At(arr, i) == IF i >= 0 /\ i < Len(arr) THEN arr[i + 1] ELSE Undefined

TypeOf(x) == x.t

MathMax(a, b) == IF a >= b THEN a ELSE b

\* step 4: results.filter(typeof result === 'number' || result.length > 0)
FilterEmpty(arr) == SelectSeq(arr, LAMBDA r : TypeOf(r) = "number" \/ Len(r.s) > 0)

\* while (typeof results[start] === 'number' && start <= end) start++
RECURSIVE TrimStart(_, _, _)
TrimStart(arr, start, end) ==
    IF TypeOf(At(arr, start)) = "number" /\ start <= end
    THEN TrimStart(arr, start + 1, end)
    ELSE start

\* a mutant of TrimEnd: the trailing break counts are kept
TrimEnd_kept(arr, start, end) == end

\* while (typeof results[end] === 'number' && end > start) end--
RECURSIVE TrimEnd(_, _, _)
TrimEnd(arr, start, end) ==
    IF TypeOf(At(arr, end)) = "number" /\ end > start
    THEN TrimEnd(arr, start, end - 1)
    ELSE end

\* the run's line feeds: maxInSequence === 1 ? '\n' : '\n\n'
RunText(maxInSequence) == IF maxInSequence = 1 THEN LF ELSE LF \o LF

\* the mutant of RunStep: the counts of a run are added up
RunStepSum(maxInSequence, count) == maxInSequence + count

\* maxInSequence = Math.max(maxInSequence, results[start])
RunStep(maxInSequence, count) == MathMax(maxInSequence, count)

\* while (typeof results[start + 1] === 'number') { start++; maxInSequence = ... }
RECURSIVE RunScan(_, _, _)
RunScan(arr, start, maxInSequence) ==
    IF TypeOf(At(arr, start + 1)) = "number"
    THEN RunScan(arr, start + 1, RunStep(maxInSequence, At(arr, start + 1).n))
    ELSE [start |-> start, maxInSequence |-> maxInSequence]

\* while (start <= end) { ... start++ }
RECURSIVE CollapseLoop(_, _, _, _)
CollapseLoop(arr, start, end, elementInnerText) ==
    IF start <= end
    THEN LET partialResult == At(arr, start) IN
         IF TypeOf(partialResult) = "number"
         THEN LET run == RunScan(arr, start, partialResult.n) IN
              CollapseLoop(arr, run.start + 1, end,
                           elementInnerText \o RunText(run.maxInSequence))
         ELSE CollapseLoop(arr, start + 1, end, elementInnerText \o partialResult.s)
    ELSE elementInnerText

\* steps 4 to 7 of getInnerText
PostProcess(collected) ==
    LET arr == FilterEmpty(collected)
        start == TrimStart(arr, 0, Len(arr) - 1)
        end == TrimEnd(arr, start, Len(arr) - 1)
    IN CollapseLoop(arr, start, end, <<>>)

(***************************************************************************)
(* The inputs of the post-processing: item lists of bounded length, and    *)
(* the item list of the specification's scenario.                           *)
(***************************************************************************)
MaxItems == 4

ItemAlphabet ==
    {Num(1), Num(2), Str(<<>>), Str(<<"first text">>), Str(<<"second text">>)}

ExampleItems ==
    <<Num(1), Str(<<"first text">>), Num(1), Num(1), Str(<<"second text">>), Num(1)>>

ItemLists ==
    UNION {[1..n -> ItemAlphabet] : n \in 0..MaxItems} \cup {ExampleItems}

\* getInnerText, steps 4 to 7, on the collected items
Collapse ==
    /\ pc = "collected"
    /\ ret' = PostProcess(results)
    /\ pc' = "returned"
    /\ UNCHANGED <<dom, results>>
    /\ UNCHANGED selectionVars
    /\ UNCHANGED queryVars
    /\ UNCHANGED hostVars

InitItems ==
    /\ dom = Document
    /\ pc = "collected"
    /\ results \in ItemLists
    /\ ret = NoValue
    /\ NoTextCall
    /\ QueryIdle
    /\ HostIdle

NextItems == Collapse

SpecItems == InitItems /\ [][NextItems]_vars

(***************************************************************************)
(* The post-processing rule, stated on the item list as a whole.           *)
(***************************************************************************)
IsBreak(x) == TypeOf(x) = "number"

StringIndexes(arr) == {i \in 1..Len(arr) : ~IsBreak(arr[i])}

MinOf(S) == CHOOSE x \in S : \A y \in S : x <= y
MaxOf(S) == CHOOSE x \in S : \A y \in S : x >= y

\* the last index of the maximal run of break counts that holds index i
RunEnd(arr, i) ==
    MaxOf({j \in i..Len(arr) : \A k \in i..j : IsBreak(arr[k])})

RunMaximum(arr, i) == MaxOf({arr[k].n : k \in i..RunEnd(arr, i)})

RECURSIVE Repeat(_, _)
Repeat(s, n) == IF n = 0 THEN <<>> ELSE s \o Repeat(s, n - 1)

\* what index i of the trimmed list contributes to the text
Piece(arr, i) ==
    IF ~IsBreak(arr[i]) THEN arr[i].s
    ELSE IF i > 1 /\ IsBreak(arr[i - 1]) THEN <<>>
    ELSE Repeat(LF, RunMaximum(arr, i))

RECURSIVE JoinPieces(_, _, _)
JoinPieces(arr, i, last) ==
    IF i > last THEN <<>> ELSE Piece(arr, i) \o JoinPieces(arr, i + 1, last)

ExpectedText(collected) ==
    LET arr == SelectSeq(collected, LAMBDA r : r # Str(<<>>))
        strs == StringIndexes(arr)
    IN IF strs = {} THEN <<>> ELSE JoinPieces(arr, MinOf(strs), MaxOf(strs))

\* C1: the text getInnerText returns for a collected item list is the list
\* with the empty strings dropped, the leading and trailing runs of break
\* counts dropped, every other maximal run of break counts replaced by as
\* many line feeds as the maximum count of the run (1 or 2), and the strings
\* concatenated in order; [1,'first text',1,1,'second text',1] yields
\* 'first text\nsecond text'.
C1_Collapsing ==
    pc = "returned" =>
        /\ ret = ExpectedText(results)
        /\ results = ExampleItems => ret = <<"first text", "\n", "second text">>

\* C1 witness: a list with the interior run 1, 2 has been post-processed
C1_Witness ==
    /\ pc = "returned"
    /\ results = <<Str(<<"first text">>), Num(1), Num(2), Str(<<"second text">>)>>
    /\ ret = <<"first text", "\n", "\n", "second text">>

(***************************************************************************)
(* 3rdparty/inner-text.ts: computed styles and the window's Selection.      *)
(***************************************************************************)
\* the display the user agent's style sheet gives a tag
DefaultDisplay(tagName) ==
    IF tagName \in {"BODY", "DIV", "P", "OPTION"} THEN "block"
    ELSE IF tagName = "SLOT" THEN "contents"
    ELSE IF tagName = "TABLE" THEN "table"
    ELSE IF tagName = "CAPTION" THEN "table-caption"
    ELSE IF tagName = "TR" THEN "table-row"
    ELSE IF tagName = "TD" THEN "table-cell"
    ELSE IF tagName \in {"SELECT", "TEXTAREA"} THEN "inline-block"
    ELSE IF tagName = "DATALIST" THEN "none"
    ELSE "inline"

\* visibility is inherited
RECURSIVE ComputedVisibility(_)
ComputedVisibility(n) ==
    IF dom[n].style.visibility # "" THEN dom[n].style.visibility
    ELSE IF parentNodeGetter(n) = NoNode THEN "visible"
    ELSE ComputedVisibility(parentNodeGetter(n))

getElementComputedStyle(elm) ==
    [display |-> IF dom[elm].style.display # "" THEN dom[elm].style.display
                 ELSE DefaultDisplay(dom[elm].tagName),
     visibility |-> ComputedVisibility(elm)]

getWindowSelection(node) == win.selection

\* a mutant of nodeIsBeingRendered: the visibility is not looked at
nodeIsBeingRendered_displayOnly(nodeComputedStyle) ==
    nodeComputedStyle.display # "none"

nodeIsBeingRendered(nodeComputedStyle) ==
    nodeComputedStyle.visibility = "visible" /\ nodeComputedStyle.display # "none"

\* the state getSelectionState returns
getSelectionState(elm) ==
    IF getWindowSelection(elm) = Null THEN NullState
    ELSE [element |-> elm,
          onselect |-> win.onselect,
          onselectstart |-> win.onselectstart,
          onselectionchange |-> win.onselectionchange,
          ranges |-> [i \in 1..Len(ranges) |-> ranges[i]]]

\* a mutant of getSelectionState_window: the handlers are left in place
getSelectionState_window_kept(elm) == win

\* the window getSelectionState leaves behind
getSelectionState_window(elm) ==
    IF getWindowSelection(elm) = Null THEN win
    ELSE [win EXCEPT !.onselect = Null, !.onselectstart = Null,
                     !.onselectionchange = Null]

removeAllRanges(sel) == <<>>

\* a range that is in the selection already is not added again
addRange(sel, range) == IF range \in Range(sel) THEN sel ELSE Append(sel, range)

\* for (let i = 0; i < ranges.length; i++) selection.addRange(ranges[i])
RECURSIVE AddRanges(_, _, _)
AddRanges(sel, saved, i) ==
    IF i < Len(saved) THEN AddRanges(addRange(sel, saved[i + 1]), saved, i + 1)
    ELSE sel

\* the mutant of restoreSelectionState: the ranges are added to the selection
\* as the collection left it
restoreSelectionState_keepRanges(state) ==
    IF state = NullState THEN [win |-> win, ranges |-> ranges]
    ELSE [win |-> [win EXCEPT !.onselect = state.onselect,
                              !.onselectstart = state.onselectstart,
                              !.onselectionchange = state.onselectionchange],
          ranges |-> AddRanges(ranges, state.ranges, 0)]

\* the window and the ranges restoreSelectionState leaves behind
restoreSelectionState(state) ==
    IF state = NullState THEN [win |-> win, ranges |-> ranges]
    ELSE [win |-> [win EXCEPT !.onselect = state.onselect,
                              !.onselectstart = state.onselectstart,
                              !.onselectionchange = state.onselectionchange],
          ranges |-> AddRanges(removeAllRanges(ranges), state.ranges, 0)]

(***************************************************************************)
(* getTextNodeInnerText.                                                    *)
(***************************************************************************)
RECURSIVE HasDisplayNone(_)
HasDisplayNone(n) ==
    IF n = NoNode THEN FALSE
    ELSE IF getElementComputedStyle(n).display = "none" THEN TRUE
    ELSE HasDisplayNone(parentNodeGetter(n))

\* domRect.height <= 0 || domRect.width <= 0: the text has no box, under
\* display: none or when it is white space that collapses away
RectIsEmpty(textNode) ==
    dom[textNode].data = WhiteSpace \/ HasDisplayNone(parentNodeGetter(textNode))

\* selection.toString() with the node's contents selected: its rendered
\* characters
selectionToString(textNode) ==
    IF ComputedVisibility(parentNodeGetter(textNode)) = "visible"
    THEN dom[textNode].data
    ELSE <<>>

\* a mutant of getTextNodeInnerText: a missing Selection is not looked at
getTextNodeInnerText_measured(textNode) ==
    IF RectIsEmpty(textNode) THEN <<>> ELSE selectionToString(textNode)

getTextNodeInnerText(textNode) ==
    IF getWindowSelection(textNode) = Null THEN dom[textNode].data
    ELSE IF RectIsEmpty(textNode) THEN <<>>
    ELSE selectionToString(textNode)

\* getTextNodeInnerText replaces the ranges of the selection by the node's
getTextNodeInnerText_selects(textNode) ==
    getWindowSelection(textNode) # Null /\ ~RectIsEmpty(textNode)

(***************************************************************************)
(* innerTextCollectionSteps.                                                *)
(***************************************************************************)
\* the native innerText of an OPTION
innerTextGetter(node) ==
    Flatten([i \in DOMAIN Subtree(node) |-> dom[Subtree(node)[i]].data])

\* the mutant of innerTextChildNodes: node.childNodes
innerTextChildNodes_native(node) == childNodesGetter(node)

\* const childNodes = childNodesGetterPatched.call(node)
innerTextChildNodes(node) == childNodesGetterPatched(node)

pushLineBreak(items, tagName) ==
    IF tagName = "BR" THEN Append(items, Str(LF)) ELSE items

\* a mutant of pushTableCell: the tab comes before the items of the children
pushTableCell_unshift(items, display) ==
    IF display = "table-cell" THEN <<Str(TAB)>> \o items ELSE items

pushTableCell(items, display) ==
    IF display = "table-cell" THEN Append(items, Str(TAB)) ELSE items

pushTableRow(items, display) ==
    IF display = "table-row" THEN Append(items, Str(LF)) ELSE items

\* the mutant of wrapParagraph: a P requires one line break
wrapParagraph_one(items, tagName) ==
    IF tagName = "P" THEN <<Num(1)>> \o items \o <<Num(1)>> ELSE items

wrapParagraph(items, tagName) ==
    IF tagName = "P" THEN <<Num(2)>> \o items \o <<Num(2)>> ELSE items

wrapBlock(items, display) ==
    IF display = "block" \/ display = "table-caption"
    THEN <<Num(1)>> \o items \o <<Num(1)>>
    ELSE items

\* a mutant of optionItems: the text of the option without the break counts
optionItems_unwrapped(node) == <<Str(innerTextGetter(node))>>

\* return [1, innerTextGetter.call(node), 1]
optionItems(node) == <<Num(1), Str(innerTextGetter(node)), Num(1)>>

\* a mutant of notRenderedItems: a SELECT or DATALIST returns the items of
\* its children as any other element
notRenderedItems_children(items, tagName) == items

\* a mutant of notRenderedItems: an element that is not rendered returns
\* nothing
notRenderedItems_empty(items, tagName) == <<>>

\* if (!nodeIsBeingRendered(computedStyle)) { ... return [] ... return items }
notRenderedItems(items, tagName) ==
    IF tagName = "SELECT" \/ tagName = "DATALIST" THEN <<>> ELSE items

RECURSIVE innerTextCollectionSteps(_)
RECURSIVE innerTextCollectionSteps_loop(_, _)

\* for (let i = 0, n = childNodes.length; i < n; i++) ArrayPush.apply(items, ...)
innerTextCollectionSteps_loop(childNodes, i) ==
    IF i < Len(childNodes)
    THEN innerTextCollectionSteps(childNodes[i + 1])
             \o innerTextCollectionSteps_loop(childNodes, i + 1)
    ELSE <<>>

innerTextCollectionSteps(node) ==
    IF nodeIsElement(node)
    THEN LET tagName == dom[node].tagName
             computedStyle == getElementComputedStyle(node)
         IN IF tagName = "OPTION"
            THEN optionItems(node)
            ELSE IF tagName = "TEXTAREA" THEN <<>>
            ELSE LET items == innerTextCollectionSteps_loop(innerTextChildNodes(node), 0)
                 IN IF ~nodeIsBeingRendered(computedStyle)
                    THEN notRenderedItems(items, tagName)
                    ELSE wrapBlock(
                             wrapParagraph(
                                 pushTableRow(
                                     pushTableCell(pushLineBreak(items, tagName),
                                                   computedStyle.display),
                                     computedStyle.display),
                                 tagName),
                             computedStyle.display)
    ELSE IF nodeIsText(node) THEN <<Str(getTextNodeInnerText(node))>>
    ELSE <<>>

\* the text nodes whose range innerTextCollectionSteps(node) puts in the
\* selection, in the order of the calls
RECURSIVE innerTextCollectionSteps_selected(_)
RECURSIVE innerTextCollectionSteps_selectedLoop(_, _)

innerTextCollectionSteps_selectedLoop(childNodes, i) ==
    IF i < Len(childNodes)
    THEN innerTextCollectionSteps_selected(childNodes[i + 1])
             \o innerTextCollectionSteps_selectedLoop(childNodes, i + 1)
    ELSE <<>>

innerTextCollectionSteps_selected(node) ==
    IF nodeIsElement(node)
    THEN IF dom[node].tagName = "OPTION" \/ dom[node].tagName = "TEXTAREA" THEN <<>>
         ELSE innerTextCollectionSteps_selectedLoop(innerTextChildNodes(node), 0)
    ELSE IF nodeIsText(node) /\ getTextNodeInnerText_selects(node) THEN <<node>>
    ELSE <<>>

\* the ranges of the selection after innerTextCollectionSteps(node): each
\* measured text node removes all ranges and adds its own
innerTextCollectionSteps_ranges(sel, node) ==
    LET selected == innerTextCollectionSteps_selected(node) IN
    IF selected = <<>> THEN sel ELSE <<selected[Len(selected)]>>

\* the text content of the filtered tree
RECURSIVE getTextContent(_)
RECURSIVE getTextContent_loop(_, _)

getTextContent_loop(childNodes, i) ==
    IF i < Len(childNodes)
    THEN getTextContent(childNodes[i + 1]) \o getTextContent_loop(childNodes, i + 1)
    ELSE <<>>

getTextContent(node) ==
    IF nodeIsElement(node) THEN getTextContent_loop(getFilteredChildNodes(node), 0)
    ELSE dom[node].data

(***************************************************************************)
(* getInnerText, step by step.                                              *)
(***************************************************************************)
\* lines 188-198: the rendering test, the short circuit, getSelectionState
GetInnerText ==
    /\ pc = "idle"
    /\ IF ~nodeIsBeingRendered(getElementComputedStyle(element))
       THEN /\ pc' = "returned"
            /\ ret' = getTextContent(element)
            /\ UNCHANGED <<win, selectionState, results, idx>>
       ELSE /\ pc' = "collecting"
            /\ selectionState' = getSelectionState(element)
            /\ win' = getSelectionState_window(element)
            /\ results' = <<>>
            /\ idx' = 0
            /\ UNCHANGED ret
    /\ UNCHANGED <<dom, element, ranges, before>>
    /\ UNCHANGED queryVars
    /\ UNCHANGED hostVars

\* lines 200-205, one turn of the loop: the items of childNodes[i]
CollectChild ==
    /\ pc = "collecting"
    /\ idx < Len(childNodesGetterPatched(element))
    /\ results' = results \o
            innerTextCollectionSteps(childNodesGetterPatched(element)[idx + 1])
    /\ ranges' = innerTextCollectionSteps_ranges(ranges,
            childNodesGetterPatched(element)[idx + 1])
    /\ idx' = idx + 1
    /\ UNCHANGED <<dom, pc, ret, element, win, selectionState, before>>
    /\ UNCHANGED queryVars
    /\ UNCHANGED hostVars

\* innerTextCollectionSteps(childNodes[i]) throws (the recursion exhausts the
\* call stack, a DOM call raises): the exception leaves getInnerText, which
\* has no handler; k text nodes had been measured
CollectThrows ==
    /\ pc = "collecting"
    /\ idx < Len(childNodesGetterPatched(element))
    /\ \E k \in 0..Len(innerTextCollectionSteps_selected(
                           childNodesGetterPatched(element)[idx + 1])) :
          ranges' = IF k = 0 THEN ranges
                    ELSE <<innerTextCollectionSteps_selected(
                               childNodesGetterPatched(element)[idx + 1])[k]>>
    /\ pc' = "thrown"
    /\ UNCHANGED <<dom, results, ret, element, win, selectionState, idx, before>>
    /\ UNCHANGED queryVars
    /\ UNCHANGED hostVars

\* lines 207-242: restoreSelectionState, steps 4 to 7, return
GetInnerText_return ==
    /\ pc = "collecting"
    /\ idx = Len(childNodesGetterPatched(element))
    /\ win' = restoreSelectionState(selectionState).win
    /\ ranges' = restoreSelectionState(selectionState).ranges
    /\ ret' = PostProcess(results)
    /\ pc' = "returned"
    /\ UNCHANGED <<dom, results, element, selectionState, idx, before>>
    /\ UNCHANGED queryVars
    /\ UNCHANGED hostVars

(***************************************************************************)
(* The calls checked: the elements read, the styles set by the page, the   *)
(* window's handlers and the user's selection.                              *)
(***************************************************************************)
TextRoots ==
    {"body", "doc_div", "x_container", "w0", "w1", "w2", "w3",
     "a0", "h0", "h1", "h2", "s1", "l1"}

StyledElements == {"w0", "a0", "h0", "w1", "l1", "h2"}

Styles ==
    {[display |-> "none", visibility |-> ""],
     [display |-> "", visibility |-> "hidden"],
     [display |-> "", visibility |-> "collapse"]}

Documents ==
    {Document} \cup
    {[Document EXCEPT ![n].style = st] : n \in StyledElements, st \in Styles}

Windows ==
    {[onselect |-> h[1], onselectstart |-> h[2], onselectionchange |-> h[3],
      selection |-> s] :
        h \in {<<Null, Null, Null>>, <<"onselect", Null, Null>>,
               <<"onselect", "onselectstart", "onselectionchange">>},
        s \in {"Selection", Null}}

UserRanges == {<<>>, <<"userRange1">>, <<"userRange1", "userRange2">>}

InitText ==
    /\ dom \in Documents
    /\ element \in TextRoots
    /\ win \in Windows
    /\ ranges \in UserRanges
    /\ pc = "idle"
    /\ results = <<>>
    /\ ret = NoValue
    /\ selectionState = NullState
    /\ idx = 0
    /\ before = [win |-> win, ranges |-> ranges]
    /\ QueryIdle
    /\ HostIdle

NextText ==
    \/ GetInnerText
    \/ CollectChild
    \/ CollectThrows
    \/ GetInnerText_return

SpecText == InitText /\ [][NextText]_vars

(***************************************************************************)
(* Properties of getInnerText.                                              *)
(***************************************************************************)
\* the element is rendered and its window has a Selection
Measured ==
    /\ nodeIsBeingRendered(getElementComputedStyle(element))
    /\ win.selection # Null

StringItems(list) == {i \in DOMAIN list : TypeOf(list[i]) = "string" /\ list[i].s # <<>>}

\* C2 as stated: once the selection state is captured, every exit of the
\* call, an exception during the collection included, leaves the three
\* handlers and the ranges as the call found them.
C2_RestoredOnEveryExit ==
    (pc \in {"returned", "thrown"} /\ selectionState # NullState) =>
        /\ win = before.win
        /\ ranges = before.ranges

\* C3: after getInnerText returns for a rendered element whose window has a
\* Selection, the three handlers and the ranges of the selection (the same,
\* in the same order, no measurement range left) are what they were before
\* the call.
C3_RestoredAfterReturn ==
    (pc = "returned" /\ Measured) =>
        /\ win = before.win
        /\ ranges = before.ranges

\* C3 witness: a call that found two ranges and three handlers returned after
\* measuring two or more text nodes
C3_Witness ==
    /\ pc = "returned"
    /\ Measured
    /\ before.ranges = <<"userRange1", "userRange2">>
    /\ before.win.onselectionchange # Null
    /\ Cardinality(StringItems(results)) >= 2

\* the node lives in the shadow tree of the host
InShadowTreeOf(host, n) ==
    /\ isHostElement(host)
    /\ getNodeKey(host) # NoKey
    /\ n # host
    /\ Contains(host, n)
    /\ getNodeNearestOwnerKey(n) = getNodeKey(host)

\* the text nodes in the shadow tree of a host nested in the element
NestedShadowText(elm) ==
    {t \in DOMAIN dom :
        /\ nodeIsText(t)
        /\ \E host \in DOMAIN dom :
              /\ host # elm
              /\ Contains(elm, host)
              /\ InShadowTreeOf(host, t)}

\* C4: the innerText of an element holds no text of a node that lives in the
\* shadow tree of a host nested in it; two block-wrapped texts around a host
\* with no slotted content give 'first text\nsecond text'.
C4_ShadowOpacity ==
    pc = "returned" =>
        /\ \A t \in NestedShadowText(element) : dom[t].data[1] \notin Range(ret)
        /\ (element = "w0" /\ dom = Document /\ win.selection # Null) =>
                ret = <<"first text", "\n", "second text">>

\* C4 witness: the innerText of .without-slotted-content has been read
C4_Witness ==
    /\ pc = "returned"
    /\ element = "w0"
    /\ dom = Document
    /\ win.selection # Null
    /\ NestedShadowText(element) # {}
    /\ Len(ret) = 3

DoubleLineFeeds ==
    <<"first text", "\n", "\n", "slotted element", "\n", "\n", "second text">>

SingleLineFeeds ==
    <<"first text", "\n", "slotted element", "\n", "second text">>

\* C5 as amended: with the texts 'first text' and 'second text' in block
\* wrappers around a custom element, a slotted P with the text
\* 'slotted element' gives 'first text\n\nslotted element\n\nsecond text',
\* through one level and through two nested levels alike; a slotted block
\* element that is not a P gives 'first text\nslotted element\nsecond text'.
C5_SlottedProjection ==
    (pc = "returned" /\ dom = Document /\ win.selection # Null) =>
        /\ element \in {"w1", "w2"} => ret = DoubleLineFeeds
        /\ element = "w3" => ret = SingleLineFeeds

\* C5 witness: the innerText of .with-slotted-content-2-levels has been read
C5_Witness ==
    /\ pc = "returned"
    /\ dom = Document
    /\ win.selection # Null
    /\ element = "w2"
    /\ ret = DoubleLineFeeds

\* C5 as stated: every block-wrapped slotted element is set off by double
\* line feeds
C5_AsStated ==
    (pc = "returned" /\ dom = Document /\ win.selection # Null
        /\ element \in {"w1", "w2", "w3"}) => ret = DoubleLineFeeds

\* the string without the line feeds and tabs that getInnerText inserts
StripBreaks(str) == SelectSeq(str, LAMBDA t : t \notin {"\n", "\t"})

NotRendered(elm) ==
    \/ getElementComputedStyle(elm).visibility # "visible"
    \/ getElementComputedStyle(elm).display = "none"

\* C21: for an element that is not being rendered getInnerText returns the
\* element's text content and returns before the selection state is
\* captured: the three handlers and the ranges are untouched and nothing is
\* collected.
C21_ShortCircuit ==
    (pc = "returned" /\ NotRendered(element)) =>
        /\ ret = getTextContent(element)
        /\ selectionState = NullState
        /\ win = before.win
        /\ ranges = before.ranges
        /\ results = <<>>
        /\ idx = 0

\* C21 witness: a hidden element with text was read while the window had
\* handlers and a selected range
C21_Witness ==
    /\ pc = "returned"
    /\ NotRendered(element)
    /\ ret # <<>>
    /\ win.selection # Null
    /\ win.onselect # Null
    /\ ranges # <<>>

(***************************************************************************)
(* innerTextCollectionSteps, node by node: a form with a paragraph, a line *)
(* break, a table, a select, a datalist and a textarea.                     *)
(***************************************************************************)
FormMarkup ==
       ("form" :> El("DIV", <<"f_p", "f_ws", "f_table", "f_select", "f_datalist",
                              "f_textarea", "f_span">>, NoKey, NoKey, FALSE))
    @@ ("f_p" :> El("P", <<"t_p1", "f_br", "t_p2">>, NoKey, NoKey, FALSE))
    @@ ("t_p1" :> Tx(<<"line one">>, NoKey))
    @@ ("f_br" :> El("BR", <<>>, NoKey, NoKey, FALSE))
    @@ ("t_p2" :> Tx(<<"line two">>, NoKey))
    @@ ("f_ws" :> Tx(WhiteSpace, NoKey))
    @@ ("f_table" :> El("TABLE", <<"f_caption", "f_tr">>, NoKey, NoKey, FALSE))
    @@ ("f_caption" :> El("CAPTION", <<"t_caption">>, NoKey, NoKey, FALSE))
    @@ ("t_caption" :> Tx(<<"caption">>, NoKey))
    @@ ("f_tr" :> El("TR", <<"f_td1", "f_td2">>, NoKey, NoKey, FALSE))
    @@ ("f_td1" :> El("TD", <<"t_td1">>, NoKey, NoKey, FALSE))
    @@ ("t_td1" :> Tx(<<"cell one">>, NoKey))
    @@ ("f_td2" :> El("TD", <<"t_td2">>, NoKey, NoKey, FALSE))
    @@ ("t_td2" :> Tx(<<"cell two">>, NoKey))
    @@ ("f_select" :> El("SELECT", <<"f_opt1", "f_opt2">>, NoKey, NoKey, FALSE))
    @@ ("f_opt1" :> El("OPTION", <<"t_opt1">>, NoKey, NoKey, FALSE))
    @@ ("t_opt1" :> Tx(<<"option one">>, NoKey))
    @@ ("f_opt2" :> El("OPTION", <<"t_opt2">>, NoKey, NoKey, FALSE))
    @@ ("t_opt2" :> Tx(<<"option two">>, NoKey))
    @@ ("f_datalist" :> El("DATALIST", <<"f_opt3">>, NoKey, NoKey, FALSE))
    @@ ("f_opt3" :> El("OPTION", <<"t_opt3">>, NoKey, NoKey, FALSE))
    @@ ("t_opt3" :> Tx(<<"option three">>, NoKey))
    @@ ("f_textarea" :> El("TEXTAREA", <<"t_textarea">>, NoKey, NoKey, FALSE))
    @@ ("t_textarea" :> Tx(<<"typed text">>, NoKey))
    @@ ("f_span" :> El("SPAN", <<"t_span">>, NoKey, NoKey, FALSE))
    @@ ("t_span" :> Tx(<<"inline text">>, NoKey))

RECURSIVE TreeOrderOf(_, _)
TreeOrderOf(markup, n) ==
    <<n>> \o Flatten([i \in DOMAIN markup[n].childNodes |->
                         TreeOrderOf(markup, markup[n].childNodes[i])])

\* the document a markup parses to
ParseMarkup(markup, root) ==
    LET order == TreeOrderOf(markup, root) IN
    [n \in DOMAIN markup |->
        [markup[n] EXCEPT
            !.parentNode =
                IF \E p \in DOMAIN markup : n \in Range(markup[p].childNodes)
                THEN CHOOSE p \in DOMAIN markup : n \in Range(markup[p].childNodes)
                ELSE NoNode,
            !.index = CHOOSE i \in DOMAIN order : order[i] = n]]

FormDocument == ParseMarkup(FormMarkup, "form")

FormNodes == DOMAIN FormMarkup
FormElements == {n \in FormNodes : FormMarkup[n].nodeType = "element"}

\* the styles the page sets on one element of the form
FormStyles ==
    {[display |-> "none", visibility |-> ""],
     [display |-> "", visibility |-> "hidden"],
     [display |-> "block", visibility |-> ""],
     [display |-> "table-cell", visibility |-> ""]}

FormDocuments ==
    {FormDocument} \cup
    {[FormDocument EXCEPT ![n].style = st] : n \in FormElements, st \in FormStyles}

\* innerTextCollectionSteps(node), for any node of the form
CollectSteps ==
    /\ pc = "idle"
    /\ \E node \in FormNodes :
        /\ element' = node
        /\ results' = innerTextCollectionSteps(node)
        /\ ranges' = innerTextCollectionSteps_ranges(ranges, node)
    /\ pc' = "collected"
    /\ UNCHANGED <<dom, ret, win, selectionState, idx, before>>
    /\ UNCHANGED queryVars
    /\ UNCHANGED hostVars

InitSteps ==
    /\ dom \in FormDocuments
    /\ element = "form"
    /\ win \in {PlainWindow, [PlainWindow EXCEPT !.selection = Null]}
    /\ ranges \in {<<>>, <<"userRange1">>}
    /\ pc = "idle"
    /\ results = <<>>
    /\ ret = NoValue
    /\ selectionState = NullState
    /\ idx = 0
    /\ before = [win |-> win, ranges |-> ranges]
    /\ QueryIdle
    /\ HostIdle

NextSteps == CollectSteps

SpecSteps == InitSteps /\ [][NextSteps]_vars

\* the items of the children, in child order
ChildItems(node) == innerTextCollectionSteps_loop(childNodesGetterPatched(node), 0)

Display(node) == getElementComputedStyle(node).display
TagName(node) == dom[node].tagName
Rendered(node) == ~NotRendered(node)

\* C22: a rendered element other than OPTION and TEXTAREA yields the items of
\* its children, then '\n' for a BR, '\t' for a table-cell, '\n' for a
\* table-row, the whole wrapped in 2 for a P and then in 1 for a block or a
\* table-caption; a text node yields one string item.
C22_ElementItems ==
    pc = "collected" =>
        /\ (nodeIsElement(element) /\ Rendered(element)
                /\ TagName(element) \notin {"OPTION", "TEXTAREA"}) =>
            LET own == (IF TagName(element) = "BR" THEN <<Str(LF)>> ELSE <<>>)
                       \o (IF Display(element) = "table-cell" THEN <<Str(TAB)>> ELSE <<>>)
                       \o (IF Display(element) = "table-row" THEN <<Str(LF)>> ELSE <<>>)
                inner == ChildItems(element) \o own
                para == IF TagName(element) = "P"
                        THEN <<Num(2)>> \o inner \o <<Num(2)>> ELSE inner
                block == IF Display(element) \in {"block", "table-caption"}
                         THEN <<Num(1)>> \o para \o <<Num(1)>> ELSE para
            IN results = block
        /\ nodeIsText(element) =>
            /\ Len(results) = 1
            /\ TypeOf(results[1]) = "string"

\* C22 witness: a rendered block-level P with a line break between two texts
\* gave [1, 2, 'line one', '\n', 'line two', 2, 1]
C22_Witness ==
    /\ pc = "collected"
    /\ element = "f_p"
    /\ win.selection # Null
    /\ results = <<Num(1), Num(2), Str(<<"line one">>), Str(LF), Str(<<"line two">>),
                   Num(2), Num(1)>>

\* the text of the node and of its descendants
TextsOf(node) ==
    {dom[Subtree(node)[i]].data : i \in {j \in DOMAIN Subtree(node) : nodeIsText(Subtree(node)[j])}}

\* C23: an OPTION yields [1, its native innerText, 1] whatever its computed
\* visibility and display; its children are not visited and none of its
\* text nodes is measured through the selection.
C23_Option ==
    (pc = "collected" /\ TagName(element) = "OPTION") =>
        /\ results = <<Num(1), Str(innerTextGetter(element)), Num(1)>>
        /\ element = "f_opt1" => results[2].s = <<"option one">>
        /\ ranges = before.ranges

\* C23 witness: the steps were run on an option that is not displayed, in a
\* window that has a Selection with a range
C23_Witness ==
    /\ pc = "collected"
    /\ element = "f_opt1"
    /\ Display(element) = "none"
    /\ win.selection # Null
    /\ ranges = <<"userRange1">>
    /\ results = <<Num(1), Str(<<"option one">>), Num(1)>>

\* C24: a TEXTAREA, and a SELECT or DATALIST that is not being rendered,
\* yield no item, so that no text or marker of theirs or of their
\* descendants is among the items of an ancestor.
C24_NoItems ==
    pc = "collected" =>
        /\ (\/ TagName(element) = "TEXTAREA"
            \/ (TagName(element) \in {"SELECT", "DATALIST"} /\ NotRendered(element))) =>
                results = <<>>
        /\ element = "form" =>
            \A n \in {"f_textarea", "f_select", "f_datalist"} :
                (TagName(n) = "TEXTAREA" \/ NotRendered(n)) =>
                    \A i \in DOMAIN results : results[i].s \notin TextsOf(n)

\* C24 witness: the items of the form were collected while its select was
\* hidden; they hold no option
C24_Witness ==
    /\ pc = "collected"
    /\ element = "form"
    /\ NotRendered("f_select")
    /\ Rendered("form")
    /\ Str(<<"inline text">>) \in Range(results)
    /\ Str(<<"option one">>) \notin Range(results)

\* C25: an element that is not being rendered and is none of SELECT,
\* DATALIST, OPTION, TEXTAREA yields the items of its children and nothing of
\* its own.
C25_NotRendered ==
    (/\ pc = "collected"
     /\ nodeIsElement(element)
     /\ NotRendered(element)
     /\ TagName(element) \notin {"SELECT", "DATALIST", "OPTION", "TEXTAREA"}) =>
        results = ChildItems(element)

\* C25 witness: a P with visibility: hidden, read without a Selection, gave
\* the items of its children without markers
C25_Witness ==
    /\ pc = "collected"
    /\ element = "f_p"
    /\ NotRendered(element)
    /\ win.selection = Null
    /\ results = <<Str(<<"line one">>), Str(<<"line two">>)>>

\* the three handlers of the window are null
HandlersOff ==
    /\ win.onselect = Null
    /\ win.onselectstart = Null
    /\ win.onselectionchange = Null

\* C26: on a window that has a Selection the three handlers are null from
\* the capture of the selection state to its restoration, and the ranges of
\* the selection change only in that interval.
C26_CriticalSection ==
    /\ []((pc = "collecting" /\ win.selection # Null) => HandlersOff)
    /\ [][ranges' # ranges => pc = "collecting"]_vars

\* C26 witness: in the middle of a collection the selection holds a
\* measurement range in place of the user's, and the window's handler is off
C26_Witness ==
    /\ pc = "collecting"
    /\ win.selection # Null
    /\ before.win.onselect # Null
    /\ HandlersOff
    /\ idx > 0
    /\ ranges # before.ranges
    /\ before.ranges # <<>>

(***************************************************************************)
(* The tabindex attribute written by the patched setter alone.             *)
(***************************************************************************)
\* a host that delegates focus, without the attribute and without listeners
InitTabIndex ==
    /\ TextIdle
    /\ ShadowIdle
    /\ LoopIdle
    /\ context \in {n \in FocusTargets : isHostElement(n)}
    /\ selector = {}
    /\ ENABLE_NODE_LIST_PATCH = TRUE
    /\ skipGlobalPatching = FALSE
    /\ call = NoCall
    /\ delegatesFocus = TRUE
    /\ tabindex = NoTabindex
    /\ listeners = NoListeners
    /\ routinesEnabled = TRUE
    /\ focusable \in FocusableSets
    /\ activeElement \in {Null} \cup (ActiveElements \cap focusable)
    /\ prior = NoPrior

NextTabIndex ==
    \/ SetTabIndex
    \/ GetTabIndex
    \/ CallFocus
    \/ CallBlur

SpecTabIndex == InitTabIndex /\ [][NextTabIndex]_vars

\* the routine was called although its listener was registered and the call
\* had not removed it first
RegisteredTwice(handle, ignore, was) ==
    /\ handle \in Fns(call.list)
    /\ was
    /\ ignore \notin Fns(call.list)

\* C27: when only the patched setter writes the attribute of a delegating
\* host, handleFocusIn is registered exactly when the attribute is present
\* with value -1 and handleFocus exactly when it is present with value 0,
\* never both, and neither is registered again while it is registered.
C27_ListenersFollowAttribute ==
    /\ listeners.focusin <=> (tabindex.has /\ tabindex.value = -1)
    /\ listeners.focus <=> (tabindex.has /\ tabindex.value = 0)
    /\ ~(listeners.focusin /\ listeners.focus)
    /\ ~RegisteredTwice("handleFocusIn", "ignoreFocusIn", prior.listeners.focusin)
    /\ ~RegisteredTwice("handleFocus", "ignoreFocus", prior.listeners.focus)

\* C27 witness: the value went from -1 to 0 and the listeners followed
C27_Witness ==
    /\ prior.tabindex = [has |-> TRUE, value |-> -1]
    /\ prior.listeners = [focusin |-> TRUE, focus |-> FALSE]
    /\ call.op = "tabIndex="
    /\ tabindex = [has |-> TRUE, value |-> 0]
    /\ listeners = [focusin |-> FALSE, focus |-> TRUE]

\* the non-empty strings among the items, in order
NonEmptyStrings(items) == SelectSeq(items, LAMBDA r : TypeOf(r) = "string" /\ r.s # <<>>)

\* C28: the text returned for a collected item list starts with the first
\* non-empty string of the list and ends with the last one, no line feed of
\* a break count before or after them; a list without a non-empty string
\* yields the empty string.
C28_TrimmedEnds ==
    pc = "returned" =>
        LET strs == NonEmptyStrings(results) IN
        IF strs = <<>> THEN ret = <<>>
        ELSE LET first == strs[1].s
                 last == strs[Len(strs)].s
             IN /\ Len(ret) >= Len(first)
                /\ SubSeq(ret, 1, Len(first)) = first
                /\ SubSeq(ret, Len(ret) - Len(last) + 1, Len(ret)) = last

\* C28 witness: a list with break counts at both ends and an empty string
\* gave the one string it holds
C28_Witness ==
    /\ pc = "returned"
    /\ results = <<Num(2), Str(<<>>), Str(<<"first text">>), Num(1)>>
    /\ ret = <<"first text">>

(***************************************************************************)
(* getInnerText, steps 4 to 7, loop by loop.                                *)
(***************************************************************************)
\* a mutant of trimEndTest: the loop of end is never entered
trimEndTest_never(arr, start, end) == FALSE

\* typeof results[end] === 'number' && end > start
trimEndTest(arr, start, end) == TypeOf(At(arr, end)) = "number" /\ end > start

LoopFrame ==
    /\ UNCHANGED <<dom, element, win, ranges, selectionState, idx, before>>
    /\ UNCHANGED queryVars
    /\ UNCHANGED <<shadowVars, focusVars>>

\* results = results.filter(...); let start = 0; let end = results.length - 1
FilterStep ==
    /\ pc = "filter"
    /\ results' = FilterEmpty(results)
    /\ loop' = [loop EXCEPT !.start = 0, !.end = Len(FilterEmpty(results)) - 1]
    /\ pc' = "trimStart"
    /\ UNCHANGED ret
    /\ LoopFrame

\* while (typeof results[start] === 'number' && start <= end) start++
TrimStartLoop ==
    /\ pc = "trimStart"
    /\ IF TypeOf(At(results, loop.start)) = "number" /\ loop.start <= loop.end
       THEN /\ loop' = [loop EXCEPT !.start = loop.start + 1]
            /\ UNCHANGED pc
       ELSE /\ pc' = "trimEnd"
            /\ UNCHANGED loop
    /\ UNCHANGED <<results, ret>>
    /\ LoopFrame

\* while (typeof results[end] === 'number' && end > start) end--
TrimEndLoop ==
    /\ pc = "trimEnd"
    /\ IF trimEndTest(results, loop.start, loop.end)
       THEN /\ loop' = [loop EXCEPT !.end = loop.end - 1]
            /\ UNCHANGED pc
       ELSE /\ pc' = "main"
            /\ UNCHANGED loop
    /\ UNCHANGED <<results, ret>>
    /\ LoopFrame

\* while (start <= end) { ... start++ }, but for the inner loop
MainLoop ==
    /\ pc = "main"
    /\ IF loop.start <= loop.end
       THEN LET partialResult == At(results, loop.start) IN
            IF TypeOf(partialResult) = "number"
            THEN /\ loop' = [loop EXCEPT !.maxInSequence = partialResult.n]
                 /\ pc' = "scan"
                 /\ UNCHANGED ret
            ELSE /\ ret' = ret \o partialResult.s
                 /\ loop' = [loop EXCEPT !.start = loop.start + 1]
                 /\ UNCHANGED pc
       ELSE /\ pc' = "returned"
            /\ UNCHANGED <<loop, ret>>
    /\ UNCHANGED results
    /\ LoopFrame

\* while (typeof results[start + 1] === 'number') { start++; ... }, then the
\* line feeds of the run and start++
ScanLoop ==
    /\ pc = "scan"
    /\ IF TypeOf(At(results, loop.start + 1)) = "number"
       THEN /\ loop' = [loop EXCEPT
                           !.start = loop.start + 1,
                           !.maxInSequence =
                               RunStep(loop.maxInSequence, At(results, loop.start + 1).n)]
            /\ UNCHANGED <<pc, ret>>
       ELSE /\ ret' = ret \o RunText(loop.maxInSequence)
            /\ loop' = [loop EXCEPT !.start = loop.start + 1]
            /\ pc' = "main"
    /\ UNCHANGED results
    /\ LoopFrame

InitLoops ==
    /\ dom = Document
    /\ pc = "filter"
    /\ results \in ItemLists
    /\ ret = <<>>
    /\ loop = [NoLoop EXCEPT !.collected = results]
    /\ NoTextCall
    /\ QueryIdle
    /\ ShadowIdle
    /\ FocusIdle

NextLoops ==
    \/ FilterStep
    \/ TrimStartLoop
    \/ TrimEndLoop
    \/ MainLoop
    \/ ScanLoop

\* the call runs on: no loop is left half way
SpecLoops == InitLoops /\ [][NextLoops]_vars /\ WF_vars(NextLoops)

\* C29: the loops of steps 5 and 6 end for every item list; once the ends
\* are trimmed the item at end is a string whenever start <= end, so the
\* inner loop, entered on a break count, stops before end: it never reads
\* an item beyond end. The text is the one of the post-processing rule.
C29_LoopsEnd ==
    /\ <>(pc = "returned")
    /\ []((pc \in {"main", "scan"} /\ loop.start <= loop.end) =>
              TypeOf(At(results, loop.end)) = "string")
    /\ [](pc = "scan" => loop.start < loop.end)
    /\ [](pc = "returned" => ret = PostProcess(loop.collected))

\* C29 witness: the inner loop is in the run 2, 1 between two strings, the
\* trailing break counts trimmed
C29_Witness ==
    /\ pc = "scan"
    /\ loop.collected = <<Str(<<"first text">>), Num(2), Num(1), Str(<<"second text">>)>>
    /\ loop.start = 2
    /\ loop.end = 3

(***************************************************************************)
(* faux-shadow/element.ts: its own innerText.                                *)
(***************************************************************************)
\* a mutant of nodeIsBeingRendered_element: the test of inner-text.ts
nodeIsBeingRendered_elementVisible(nodeComputedStyle) ==
    nodeComputedStyle.visibility = "visible" /\ nodeComputedStyle.display # "none"

\* nodeIsBeingRendered of element.ts
nodeIsBeingRendered_element(nodeComputedStyle) ==
    nodeComputedStyle.visibility # "hidden" /\ nodeComputedStyle.display # "none"

\* getTextNodeInnerText of element.ts: no bounding rectangle is looked at
getTextNodeInnerText_element(textNode) ==
    IF getWindowSelection(textNode) = Null THEN dom[textNode].data
    ELSE selectionToString(textNode)

\* node.childNodes, the patched property
childNodes_element(node) ==
    IF hasMountedChildren(node) THEN childNodesGetterPatched(node)
    ELSE childNodesGetter(node)

RECURSIVE innerTextCollectionSteps_element(_)
RECURSIVE innerTextCollectionSteps_elementLoop(_, _)

innerTextCollectionSteps_elementLoop(childNodes, i) ==
    IF i < Len(childNodes)
    THEN innerTextCollectionSteps_element(childNodes[i + 1])
             \o innerTextCollectionSteps_elementLoop(childNodes, i + 1)
    ELSE <<>>

\* innerTextCollectionSteps of element.ts
innerTextCollectionSteps_element(node) ==
    LET result == innerTextCollectionSteps_elementLoop(childNodes_element(node), 0) IN
    IF nodeIsElement(node)
    THEN LET tagName == dom[node].tagName
             computedStyle == getElementComputedStyle(node)
         IN IF computedStyle.visibility # "visible" THEN result
            ELSE IF ~nodeIsBeingRendered_element(computedStyle)
                    /\ tagName \notin {"SELECT", "OPTGROUP", "OPTION"}
            THEN result
            ELSE wrapBlock(
                     wrapParagraph(
                         pushTableRow(
                             pushTableCell(pushLineBreak(result, tagName),
                                           computedStyle.display),
                             computedStyle.display),
                         tagName),
                     computedStyle.display)
    ELSE IF nodeIsText(node) THEN Append(result, Str(getTextNodeInnerText_element(node)))
    ELSE result

\* innerTextPatched of element.ts, from the call to the return
InnerTextPatched ==
    /\ pc = "idle"
    /\ IF ~nodeIsBeingRendered_element(getElementComputedStyle(element))
       THEN /\ ret' = getTextContent(element)
            /\ UNCHANGED <<results, selectionState, ranges>>
       ELSE /\ selectionState' = getSelectionState(element)
            /\ results' = innerTextCollectionSteps_elementLoop(
                              childNodesGetterPatched(element), 0)
            /\ ret' = PostProcess(innerTextCollectionSteps_elementLoop(
                                      childNodesGetterPatched(element), 0))
            /\ ranges' = IF getWindowSelection(element) = Null THEN ranges
                         ELSE AddRanges(removeAllRanges(ranges), ranges, 0)
    /\ pc' = "returned"
    /\ UNCHANGED <<dom, element, win, idx, before>>
    /\ UNCHANGED queryVars
    /\ UNCHANGED hostVars

NextInnerTextPatched == InnerTextPatched

SpecInnerTextPatched == InitText /\ [][NextInnerTextPatched]_vars

\* the computed visibility is neither 'visible' nor 'hidden' and the element
\* is displayed
OddVisibility(elm) ==
    /\ getElementComputedStyle(elm).visibility \notin {"visible", "hidden"}
    /\ getElementComputedStyle(elm).display # "none"

\* C30: the rendering tests of element.ts and of inner-text.ts agree for a
\* visibility of 'visible' or 'hidden' and differ for any other visibility
\* of a displayed element, which element.ts takes as rendered, running the
\* collection, and inner-text.ts as not rendered, returning the text
\* content.
C30_ContradictoryTests ==
    LET style == getElementComputedStyle(element) IN
    /\ style.visibility \in {"visible", "hidden"} =>
           (nodeIsBeingRendered_element(style) <=> nodeIsBeingRendered(style))
    /\ OddVisibility(element) =>
           /\ nodeIsBeingRendered_element(style)
           /\ ~nodeIsBeingRendered(style)
    /\ (pc = "returned" /\ OddVisibility(element)) =>
           /\ ret = PostProcess(results)
           /\ win.selection # Null => selectionState # NullState

\* C30 witness: innerTextPatched of element.ts ran the collection on an
\* element with visibility: collapse and returned another text than the text
\* content that getInnerText of inner-text.ts returns for it
C30_Witness ==
    /\ pc = "returned"
    /\ OddVisibility(element)
    /\ selectionState # NullState
    /\ ret # getTextContent(element)
    /\ ~nodeIsBeingRendered(getElementComputedStyle(element))

====
